---- MODULE Spec2Model ----
(***************************************************************************)
(* Model of gpioviz (src/app.py, src/components/registry.py): the per-pin  *)
(* state table, the flash / clock / component-polling threads, and the     *)
(* request handlers that start, stop and join them.                        *)
(*                                                                         *)
(* One request handler runs at a time (the control surface is synchronous  *)
(* per request); the background threads interleave with it step by step.   *)
(* A handler is split at every point where it blocks (Thread.join) and     *)
(* before it returns; a thread is split between its loop test, its         *)
(* hardware call and its write to pin_states.                              *)
(***************************************************************************)
EXTENDS Integers, Sequences, FiniteSets, TLC

\* ------------------------------------------------------------------ bounds
NumPins == 2
MaxOps == 3
MaxTens == 0
MaxOnes == 1

\* ------------------------------------------------------------------ tables
GPIO_PINS ==
  {3, 5, 7, 8, 10, 11, 12, 13, 15, 16, 18, 19, 21, 22, 23, 24, 26,
   29, 31, 32, 33, 35, 36, 37, 38, 40}

ONES_PATTERNS_GPIO ==
  [d \in 0..9 |->
     CASE d = 0 -> <<11, 8, 7, 5, 16, 12, 19, 21, 13, 26>>
       [] d = 1 -> <<8, 6, 20, 13>>
       [] d = 2 -> <<11, 8, 7, 16, 20, 12, 21, 13, 26>>
       [] d = 3 -> <<11, 8, 7, 6, 16, 20, 19, 26, 13>>
       [] d = 4 -> <<11, 5, 12, 20, 19, 6, 16, 26>>
       [] d = 5 -> <<11, 8, 7, 5, 20, 19, 26, 13>>
       [] d = 6 -> <<11, 8, 7, 5, 12, 20, 19, 21, 13, 26>>
       [] d = 7 -> <<11, 8, 7, 16, 19, 26>>
       [] d = 8 -> <<11, 8, 7, 5, 6, 16, 12, 20, 19, 21, 13, 26>>
       [] d = 9 -> <<11, 8, 7, 5, 6, 16, 20, 19, 26, 13>>]

TENS_PATTERNS_GPIO ==
  [d \in 0..9 |->
     CASE d = 0 -> <<17, 18, 10, 14, 24, 23, 2, 3, 4>>
       [] d = 1 -> <<18, 15, 22, 3>>
       [] d = 2 -> <<17, 18, 10, 24, 22, 23, 2, 3, 4>>
       [] d = 3 -> <<17, 18, 10, 15, 24, 22, 4, 3>>
       [] d = 4 -> <<17, 14, 23, 22, 15, 24, 4>>
       [] d = 5 -> <<17, 18, 10, 14, 22, 4, 3>>
       [] d = 6 -> <<17, 18, 10, 14, 23, 22, 2, 3, 4>>
       [] d = 7 -> <<17, 18, 10, 24, 4>>
       [] d = 8 -> <<17, 18, 10, 14, 15, 24, 23, 22, 2, 3, 4>>
       [] d = 9 -> <<17, 18, 10, 14, 15, 24, 22, 4, 3>>]

\* dict literals as sequences of <<key, value>> in insertion order
ONES_GPIO_TO_PIN ==
  << <<11, 23>>, <<8, 24>>, <<7, 26>>, <<5, 29>>, <<6, 31>>, <<16, 36>>,
     <<12, 32>>, <<20, 38>>, <<19, 35>>, <<21, 40>>, <<13, 33>>, <<26, 37>> >>

\* (mutant: the pins of GPIO 17 and GPIO 18 exchanged)
TENS_GPIO_TO_PIN_Exchanged ==
  << <<17, 12>>, <<18, 11>>, <<10, 19>>, <<14, 8>>, <<15, 10>>, <<24, 18>>,
     <<23, 16>>, <<22, 15>>, <<2, 3>>, <<3, 5>>, <<4, 7>> >>

TENS_GPIO_TO_PIN ==
  << <<17, 11>>, <<18, 12>>, <<10, 19>>, <<14, 8>>, <<15, 10>>, <<24, 18>>,
     <<23, 16>>, <<22, 15>>, <<2, 3>>, <<3, 5>>, <<4, 7>> >>

\* dict.get(key): the value, or 0 for None
DictGet(d, k) ==
  IF \E i \in 1..Len(d) : d[i][1] = k
  THEN d[CHOOSE i \in 1..Len(d) : d[i][1] = k][2]
  ELSE 0

\* list(dict.values())
DictValues(d) == [i \in 1..Len(d) |-> d[i][2]]

get_all_clock_pins == DictValues(ONES_GPIO_TO_PIN) \o DictValues(TENS_GPIO_TO_PIN)

BOARD_TO_BCM ==
  << <<3, 2>>, <<5, 3>>, <<7, 4>>, <<8, 14>>, <<10, 15>>, <<11, 17>>, <<12, 18>>,
     <<13, 27>>, <<15, 22>>, <<16, 23>>, <<18, 24>>, <<19, 10>>, <<21, 9>>,
     <<22, 25>>, <<23, 11>>, <<24, 8>>, <<26, 7>>, <<29, 5>>, <<31, 6>>,
     <<32, 12>>, <<33, 13>>, <<35, 19>>, <<36, 16>>, <<37, 26>>, <<38, 20>>,
     <<40, 21>> >>

PIN_ALT_FUNCTIONS ==
  << <<3, <<"I2C1 SDA", "GPIO">> >>,
     <<5, <<"I2C1 SCL", "GPIO">> >>,
     <<7, <<"GPCLK0", "GPIO">> >>,
     <<8, <<"UART TX", "GPIO">> >>,
     <<10, <<"UART RX", "GPIO">> >>,
     <<12, <<"PWM0", "PCM CLK", "GPIO">> >>,
     <<19, <<"SPI0 MOSI", "GPIO">> >>,
     <<21, <<"SPI0 MISO", "GPIO">> >>,
     <<23, <<"SPI0 SCLK", "GPIO">> >>,
     <<24, <<"SPI0 CE0", "GPIO">> >>,
     <<26, <<"SPI0 CE1", "GPIO">> >>,
     <<32, <<"PWM0", "GPIO">> >>,
     <<33, <<"PWM1", "GPIO">> >>,
     <<35, <<"PWM1", "SPI1 MISO", "GPIO">> >>,
     <<38, <<"SPI1 MISO", "PCM DIN", "GPIO">> >>,
     <<40, <<"SPI1 SCLK", "PCM DOUT", "GPIO">> >> >>

\* 'available_modes': PIN_ALT_FUNCTIONS.get(pin, ['GPIO']), fixed per pin at start
available_modes(pin) ==
  IF \E i \in 1..Len(PIN_ALT_FUNCTIONS) : PIN_ALT_FUNCTIONS[i][1] = pin
  THEN PIN_ALT_FUNCTIONS[CHOOSE i \in 1..Len(PIN_ALT_FUNCTIONS) :
                           PIN_ALT_FUNCTIONS[i][1] = pin][2]
  ELSE <<"GPIO">>

\* ------------------------------------------------------- modelled fragment
\* The pins whose records, hardware and threads are modelled: the first
\* NumPins of this list (a tens pin, a ones pin, a pin outside the clock
\* layout, a second tens pin).
ModelPinOrder == <<11, 23, 13, 12>>

Pins == {ModelPinOrder[i] : i \in 1..NumPins}

RECURSIVE SortedSeq(_)
SortedSeq(S) ==
  IF S = {} THEN <<>>
  ELSE LET m == CHOOSE x \in S : \A y \in S : x <= y
       IN <<m>> \o SortedSeq(S \ {m})

\* for pin in GPIO_PINS.keys(), restricted to the modelled pins
PinSeq == SortedSeq(Pins)

IsModelPin(p) == p \in Pins

Speeds == {200, 500}
Seconds == {s \in 0..59 : s \div 10 <= MaxTens /\ s % 10 <= MaxOnes}
ComponentTypes == {"dht22", "bogus"}

\* ---------------------------------------------------------- dict helpers
Put(f, k, v) == [x \in (DOMAIN f) \cup {k} |-> IF x = k THEN v ELSE f[x]]
Del(f, k) == [x \in (DOMAIN f) \ {k} |-> f[x]]
Get(f, k, d) == IF k \in DOMAIN f THEN f[k] ELSE d
Range(f) == {f[x] : x \in DOMAIN f}

\* ------------------------------------------------- registered classes
\* register_class: self.component_classes[component_type] = component_class
register_class(classes, component_type, component_class) ==
  Put(classes, component_type, component_class)

\* app.py registers the two DHT classes when it is imported
RegisteredClasses ==
  register_class(register_class(<<>>, "dht22", "DHT22Component"),
                 "dht11", "DHT11Component")

VARIABLES
  pin_states,         \* pin -> record (app.py pin_states)
  flashing_pins,      \* pin -> BOOLEAN, the flash threads' run flags
  flash_threads,      \* pin -> the last flash thread object started
  clock_running,      \* the clock thread's run flag
  clock_thread,       \* the clock thread object, NoThread for None
  component_running,  \* pin -> BOOLEAN, the polling threads' run flags
  component_threads,  \* pin -> the polling thread object
  component_data,     \* pin -> latest reading
  instances,          \* ComponentRegistry.instances: pin -> component
  component_classes,  \* ComponentRegistry.component_classes: type -> class
  cleanup_calls,      \* component object -> number of cleanup() calls made on it
  threads,            \* live threads: thread object -> its local state
  gpio,               \* hardware: pin -> [mode, level] (RPi.GPIO channel)
  req,                \* the request being handled
  ops                 \* number of requests accepted so far

vars == <<pin_states, flashing_pins, flash_threads, clock_running, clock_thread,
          component_running, component_threads, component_data, instances,
          component_classes, cleanup_calls, threads, gpio, req, ops>>

compVars == <<component_running, component_threads, component_data, instances,
              component_classes, cleanup_calls>>
flashVars == <<flashing_pins, flash_threads>>
clockVars == <<clock_running, clock_thread>>

\* ------------------------------------------------------------- hardware
\* GPIO.setup(pin, GPIO.OUT) / GPIO.setup(pin, GPIO.IN, pull_up_down=PUD_DOWN)
GPIO_setup(g, pin, mode) ==
  [g EXCEPT ![pin] = [mode |-> mode, level |-> IF mode = "OUT" THEN @.level ELSE 0]]

\* GPIO.output(pin, level)
GPIO_output(g, pin, level) == [g EXCEPT ![pin].level = level]

ensure_pin_setup(g, pin, mode) ==
  IF mode = "OUT"
  THEN GPIO_output(GPIO_setup(g, pin, "OUT"), pin, 0)
  ELSE GPIO_setup(g, pin, "IN")

\* --------------------------------------------------------------- threads
Thread(kind, pin, pc, speed_ms) ==
  [kind |-> kind, pin |-> pin, pc |-> pc, speed_ms |-> speed_ms,
   seconds |-> 0, phase |-> "", idx |-> 0]

\* Thread objects are named <<kind, pin, n>>; a new one takes the least n
\* that no live thread of its kind and pin has.
NoThread == <<"None", 0, 0>>

NewTid(kind, pin) ==
  LET live == {t[3] : t \in {u \in DOMAIN threads : u[1] = kind /\ u[2] = pin}}
  IN <<kind, pin, CHOOSE n \in 1..(Cardinality(live) + 1) : n \notin live>>

\* Thread.join() returns once the thread is no longer alive
Joined(t) == t \notin DOMAIN threads

LiveThreads(kind, pin) ==
  {t \in DOMAIN threads : threads[t].kind = kind /\ threads[t].pin = pin}

\* (mutant: the records start as inputs)
InitPinState_Input ==
  [mode |-> "IN", state |-> 0, flashing |-> FALSE, flash_speed |-> 500,
   peripheral_mode |-> "GPIO", component |-> FALSE]

\* ---------------------------------------------------------------- Init
InitPinState ==
  [mode |-> "OUT", state |-> 0, flashing |-> FALSE, flash_speed |-> 500,
   peripheral_mode |-> "GPIO", component |-> FALSE]

ReqIdle ==
  [op |-> "idle", pc |-> "idle", pin |-> 0, state |-> 0, mode |-> "",
   enabled |-> FALSE, speed |-> 0, ctype |-> "", idx |-> 0, result |-> "",
   branch |-> "", cls |-> "", gpio_pins |-> <<>>, available |-> TRUE,
   data |-> "",
   retries |-> 0, sensor |-> <<>>, attempts |-> 0, sleeps |-> 0,
   config |-> [file |-> "", pins |-> <<>>, components |-> <<>>]]

Init ==
  /\ pin_states = [p \in Pins |-> InitPinState]
  /\ flashing_pins = <<>>
  /\ flash_threads = <<>>
  /\ clock_running = FALSE
  /\ clock_thread = NoThread
  /\ component_running = <<>>
  /\ component_threads = <<>>
  /\ component_data = <<>>
  /\ instances = <<>>
  /\ component_classes = RegisteredClasses
  /\ cleanup_calls = <<>>
  /\ threads = <<>>
  /\ gpio = [p \in Pins |-> [mode |-> "UNSET", level |-> 0]]
  /\ req = ReqIdle
  /\ ops = 0

\* ------------------------------------------------------ flash_pin thread
\* ensure_pin_setup(pin, 'OUT') at the top of flash_pin
FlashSetup(t) ==
  /\ t \in DOMAIN threads
  /\ threads[t].kind = "flash" /\ threads[t].pc = "setup"
  /\ gpio' = ensure_pin_setup(gpio, threads[t].pin, "OUT")
  /\ threads' = [threads EXCEPT ![t].pc = "check"]
  /\ UNCHANGED <<pin_states, flashVars, clockVars, compVars, req, ops>>

\* (mutant: the loop of flash_pin never looks at its flag)
FlashCheck_IgnoresFlag(t) ==
  /\ t \in DOMAIN threads
  /\ threads[t].kind = "flash" /\ threads[t].pc = "check"
  /\ threads' = [threads EXCEPT ![t].pc = "high"]
  /\ UNCHANGED <<pin_states, flashVars, clockVars, compVars, gpio, req, ops>>

\* while flashing_pins.get(pin, False): the thread ends when the flag is off
FlashCheck(t) ==
  /\ t \in DOMAIN threads
  /\ threads[t].kind = "flash" /\ threads[t].pc = "check"
  /\ threads' = IF Get(flashing_pins, threads[t].pin, FALSE)
                THEN [threads EXCEPT ![t].pc = "high"]
                ELSE Del(threads, t)
  /\ UNCHANGED <<pin_states, flashVars, clockVars, compVars, gpio, req, ops>>

\* GPIO.output(pin, HIGH) / GPIO.output(pin, LOW)
FlashOutput(t) ==
  /\ t \in DOMAIN threads
  /\ threads[t].kind = "flash" /\ threads[t].pc \in {"high", "low"}
  /\ gpio' = GPIO_output(gpio, threads[t].pin,
                         IF threads[t].pc = "high" THEN 1 ELSE 0)
  /\ threads' = [threads EXCEPT ![t].pc = IF @ = "high" THEN "rec1" ELSE "rec0"]
  /\ UNCHANGED <<pin_states, flashVars, clockVars, compVars, req, ops>>

\* pin_states[pin]['state'] = 1 / 0, followed by time.sleep(speed_ms / 1000)
FlashRecord(t) ==
  /\ t \in DOMAIN threads
  /\ threads[t].kind = "flash" /\ threads[t].pc \in {"rec1", "rec0"}
  /\ pin_states' = [pin_states EXCEPT ![threads[t].pin].state =
                       IF threads[t].pc = "rec1" THEN 1 ELSE 0]
  /\ threads' = [threads EXCEPT ![t].pc = IF @ = "rec1" THEN "low" ELSE "check"]
  /\ UNCHANGED <<flashVars, clockVars, compVars, gpio, req, ops>>

\* A hardware call that fails. ensure_pin_setup catches the exception of
\* GPIO.setup / GPIO.output and goes on (the pin is left as it was); the
\* GPIO.output calls of flash_pin and clock_display_thread stand outside any
\* try, so the exception ends the thread.
FlashSetupFails(t) ==
  /\ t \in DOMAIN threads
  /\ threads[t].kind = "flash" /\ threads[t].pc = "setup"
  /\ threads' = [threads EXCEPT ![t].pc = "check"]
  /\ UNCHANGED <<pin_states, flashVars, clockVars, compVars, gpio, req, ops>>

FlashOutputRaises(t) ==
  /\ t \in DOMAIN threads
  /\ threads[t].kind = "flash" /\ threads[t].pc \in {"high", "low"}
  /\ threads' = Del(threads, t)
  /\ UNCHANGED <<pin_states, flashVars, clockVars, compVars, gpio, req, ops>>

flash_pin(t) == FlashSetup(t) \/ FlashCheck(t) \/ FlashOutput(t) \/ FlashRecord(t)

\* the period the running flash thread sleeps with (its speed_ms argument)
FlashPeriod(t) == threads[t].speed_ms

\* --------------------------------------------------- clock_display_thread
\* The three passes of one tick, each over the modelled pins only:
\* the clear pass over get_all_clock_pins(), then the tens and ones patterns
\* mapped through TENS_GPIO_TO_PIN / ONES_GPIO_TO_PIN (unmapped numbers give
\* None and are skipped by "if pin and ...").
ClockPinSeq == SelectSeq(get_all_clock_pins, IsModelPin)

TensPins(tens_digit) ==
  SelectSeq([i \in 1..Len(TENS_PATTERNS_GPIO[tens_digit]) |->
               DictGet(TENS_GPIO_TO_PIN, TENS_PATTERNS_GPIO[tens_digit][i])],
            IsModelPin)

OnesPins(ones_digit) ==
  SelectSeq([i \in 1..Len(ONES_PATTERNS_GPIO[ones_digit]) |->
               DictGet(ONES_GPIO_TO_PIN, ONES_PATTERNS_GPIO[ones_digit][i])],
            IsModelPin)

PassPins(phase, seconds) ==
  CASE phase = "clear" -> ClockPinSeq
    [] phase = "tens" -> TensPins(seconds \div 10)
    [] phase = "ones" -> OnesPins(seconds % 10)

\* (mutant: the digit passes write LOW like the clear pass)
PassLevel_Low(phase) == 0

PassLevel(phase) == IF phase = "clear" THEN 0 ELSE 1

\* the position of the next loop iteration from (phase, idx) on: the next
\* pass is entered when a pass is exhausted, and the tick ends in time.sleep(1)
ClockPos(phase, idx, seconds) ==
  LET after_ones == [pc |-> "loop", phase |-> "", idx |-> 0]
      ones(i) == IF i <= Len(PassPins("ones", seconds))
                 THEN [pc |-> "test", phase |-> "ones", idx |-> i]
                 ELSE after_ones
      tens(i) == IF i <= Len(PassPins("tens", seconds))
                 THEN [pc |-> "test", phase |-> "tens", idx |-> i]
                 ELSE ones(1)
      clear(i) == IF i <= Len(PassPins("clear", seconds))
                  THEN [pc |-> "test", phase |-> "clear", idx |-> i]
                  ELSE tens(1)
  IN CASE phase = "clear" -> clear(idx)
       [] phase = "tens" -> tens(idx)
       [] phase = "ones" -> ones(idx)

\* (seconds is dead once the tick is over: the next iteration reads it anew)
ClockAt(th, pos) ==
  [th EXCEPT !.pc = pos.pc, !.phase = pos.phase, !.idx = pos.idx,
             !.seconds = IF pos.pc = "loop" THEN 0 ELSE @]

ClockPin(th) == PassPins(th.phase, th.seconds)[th.idx]

\* (mutant: the tick does not look at the component flag)
ClockMayWrite_NoClaimCheck(pin) == pin \in GPIO_PINS

\* the guard in front of every write of the tick
ClockMayWrite(pin) == pin \in GPIO_PINS /\ ~pin_states[pin].component

\* while clock_running: ... seconds = datetime.now().second
ClockLoop(t) ==
  /\ t \in DOMAIN threads
  /\ threads[t].kind = "clock" /\ threads[t].pc = "loop"
  /\ IF clock_running
     THEN \E s \in Seconds :
            threads' = [threads EXCEPT
                          ![t] = ClockAt([@ EXCEPT !.seconds = s],
                                         ClockPos("clear", 1, s))]
     ELSE threads' = Del(threads, t)
  /\ UNCHANGED <<pin_states, flashVars, clockVars, compVars, gpio, req, ops>>

\* if pin in GPIO_PINS and not pin_states[pin].get('component', False):
ClockTest(t) ==
  /\ t \in DOMAIN threads
  /\ threads[t].kind = "clock" /\ threads[t].pc = "test"
  /\ threads' = [threads EXCEPT ![t] =
                   IF ClockMayWrite(ClockPin(@))
                   THEN [@ EXCEPT !.pc = "hw"]
                   ELSE ClockAt(@, ClockPos(@.phase, @.idx + 1, @.seconds))]
  /\ UNCHANGED <<pin_states, flashVars, clockVars, compVars, gpio, req, ops>>

\* ensure_pin_setup(pin, 'OUT'); GPIO.output(pin, LOW / HIGH)
ClockOutput(t) ==
  /\ t \in DOMAIN threads
  /\ threads[t].kind = "clock" /\ threads[t].pc = "hw"
  /\ gpio' = GPIO_output(ensure_pin_setup(gpio, ClockPin(threads[t]), "OUT"),
                         ClockPin(threads[t]), PassLevel(threads[t].phase))
  /\ threads' = [threads EXCEPT ![t].pc = "rec"]
  /\ UNCHANGED <<pin_states, flashVars, clockVars, compVars, req, ops>>

\* pin_states[pin]['state'] = 0 / 1
ClockRecord(t) ==
  /\ t \in DOMAIN threads
  /\ threads[t].kind = "clock" /\ threads[t].pc = "rec"
  /\ pin_states' = [pin_states EXCEPT ![ClockPin(threads[t])].state =
                      PassLevel(threads[t].phase)]
  /\ threads' = [threads EXCEPT ![t] =
                   ClockAt(@, ClockPos(@.phase, @.idx + 1, @.seconds))]
  /\ UNCHANGED <<flashVars, clockVars, compVars, gpio, req, ops>>

\* ensure_pin_setup(pin, 'OUT') succeeds or fails (caught), and GPIO.output
\* raises: the exception leaves clock_display_thread
ClockOutputRaises(t) ==
  /\ t \in DOMAIN threads
  /\ threads[t].kind = "clock" /\ threads[t].pc = "hw"
  /\ \E setup_ok \in BOOLEAN :
       gpio' = IF setup_ok
               THEN ensure_pin_setup(gpio, ClockPin(threads[t]), "OUT")
               ELSE gpio
  /\ threads' = Del(threads, t)
  /\ UNCHANGED <<pin_states, flashVars, clockVars, compVars, req, ops>>

\* One tick computed over the whole board, without the fragment: the pins of
\* a pass in the order the loops visit them, and the passes applied in turn
\* to the recorded levels; claimed is the set of pins with the component flag.
BoardPassPins(phase, seconds) ==
  CASE phase = "clear" -> get_all_clock_pins
    [] phase = "tens" ->
         [i \in 1..Len(TENS_PATTERNS_GPIO[seconds \div 10]) |->
            DictGet(TENS_GPIO_TO_PIN, TENS_PATTERNS_GPIO[seconds \div 10][i])]
    [] phase = "ones" ->
         [i \in 1..Len(ONES_PATTERNS_GPIO[seconds % 10]) |->
            DictGet(ONES_GPIO_TO_PIN, ONES_PATTERNS_GPIO[seconds % 10][i])]

RECURSIVE BoardPass(_, _, _, _)
BoardPass(levels, pins, level, claimed) ==
  IF pins = <<>>
  THEN levels
  ELSE BoardPass(IF Head(pins) # 0 /\ Head(pins) \in GPIO_PINS
                      /\ Head(pins) \notin claimed
                 THEN [levels EXCEPT ![Head(pins)] = level]
                 ELSE levels,
                 Tail(pins), level, claimed)

BoardTick(levels, seconds, claimed) ==
  LET cleared == BoardPass(levels, BoardPassPins("clear", seconds),
                           PassLevel("clear"), claimed)
      tens == BoardPass(cleared, BoardPassPins("tens", seconds),
                        PassLevel("tens"), claimed)
  IN BoardPass(tens, BoardPassPins("ones", seconds), PassLevel("ones"), claimed)

clock_display_thread(t) ==
  ClockLoop(t) \/ ClockTest(t) \/ ClockOutput(t) \/ ClockRecord(t)

\* -------------------------------------------------- component_read_thread
\* component.read() of a registered producer: a value pair or the marker
\* with both fields None (DHT22Component.read catches its own exceptions);
\* the thread also provides for a read() that raises
Readings == {"values", "none_marker"}
ReadOutcomes == Readings \cup {"raises"}

\* (mutant: only a successful read keeps the thread alive)
PollSurvives_OnlyValues(outcome) == outcome = "values"

\* "try: ... except Exception as e: ..." inside the loop: whatever read()
\* does, the thread goes on to time.sleep(2) and the next loop test
PollSurvives(outcome) == TRUE

\* component_data[pin] = {'data': data, 'last_updated': ..., ...}, which a
\* read() that raises does not reach
StoreReading(cd, pin, outcome) ==
  IF outcome = "raises"
  THEN cd
  ELSE Put(cd, pin, [data |-> outcome, last_updated |-> "HH:MM:SS"])

\* time.sleep(2) before the loop
PollStabilize(t) ==
  /\ t \in DOMAIN threads
  /\ threads[t].kind = "component" /\ threads[t].pc = "stabilize"
  /\ threads' = [threads EXCEPT ![t].pc = "check"]
  /\ UNCHANGED <<pin_states, flashVars, clockVars, compVars, gpio, req, ops>>

\* while component_running.get(pin, False):
\*     component = component_registry.get_component(pin); if component: ...
PollCheck(t) ==
  /\ t \in DOMAIN threads
  /\ threads[t].kind = "component" /\ threads[t].pc = "check"
  /\ threads' = IF ~Get(component_running, threads[t].pin, FALSE)
                THEN Del(threads, t)
                ELSE IF threads[t].pin \in DOMAIN instances
                     THEN [threads EXCEPT ![t].pc = "read"]
                     ELSE threads
  /\ UNCHANGED <<pin_states, flashVars, clockVars, compVars, gpio, req, ops>>

\* data = component.read(); component_data[pin] = {...}; time.sleep(2)
PollRead(t) ==
  /\ t \in DOMAIN threads
  /\ threads[t].kind = "component" /\ threads[t].pc = "read"
  /\ \E outcome \in ReadOutcomes :
       /\ component_data' = StoreReading(component_data, threads[t].pin, outcome)
       /\ threads' = IF PollSurvives(outcome)
                     THEN [threads EXCEPT ![t].pc = "check"]
                     ELSE Del(threads, t)
  /\ UNCHANGED <<pin_states, flashVars, clockVars, component_running,
                 component_threads, instances, component_classes, cleanup_calls,
                 gpio, req, ops>>

component_read_thread(t) == PollStabilize(t) \/ PollCheck(t) \/ PollRead(t)

\* ------------------------------------------------------ request handlers
\* A handler step runs from where the handler was (its entry, or a join that
\* has just returned) to where it next blocks in a join or has its response.
Idle == req.op = "idle"

Request(op, pin) == [ReqIdle EXCEPT !.op = op, !.pin = pin]

\* a handler is entered: one request at a time, MaxOps requests in all
Accept == Idle /\ ops < MaxOps /\ ops' = ops + 1

\* the handler has its response; its loop variables are dead
Returning(r, result) ==
  [r EXCEPT !.pc = "return", !.result = result, !.idx = 0,
            !.pin = IF r.op \in {"reset_all", "toggle_clock"} THEN 0 ELSE @]

\* the response has been sent
Return ==
  /\ req.pc = "return"
  /\ req' = ReqIdle
  /\ UNCHANGED <<pin_states, flashVars, clockVars, compVars, threads, gpio, ops>>

\* (mutant: the handler goes on without waiting for the flash thread)
FlashJoined_NoWait(pin) == TRUE

\* "if pin in flash_threads: flash_threads[pin].join()" returns
FlashJoined(pin) == pin \in DOMAIN flash_threads => Joined(flash_threads[pin])

\* "if pin in component_threads: component_threads[pin].join()" returns
ComponentJoined(pin) ==
  pin \in DOMAIN component_threads => Joined(component_threads[pin])

\* pin_states[pin]['flashing'] = False after the join
ClearFlashing(ps, pin) == [ps EXCEPT ![pin].flashing = FALSE]

\* ---- set_pin
SetPinFinish(r, ps) ==
  /\ gpio' = GPIO_output(ensure_pin_setup(gpio, r.pin, "OUT"), r.pin, r.state)
  /\ pin_states' = [ps EXCEPT ![r.pin].state = r.state]
  /\ req' = Returning(r, "success")

SetPinCall(pin, state) ==
  LET r == [Request("set_pin", pin) EXCEPT !.state = state] IN
  /\ Accept
  /\ IF pin_states[pin].flashing
     THEN /\ flashing_pins' = Put(flashing_pins, pin, FALSE)
          /\ req' = [r EXCEPT !.pc = "join_flash"]
          /\ UNCHANGED <<pin_states, gpio>>
     ELSE /\ SetPinFinish(r, pin_states)
          /\ UNCHANGED flashing_pins
  /\ UNCHANGED <<flash_threads, clockVars, compVars, threads>>

SetPinJoin ==
  /\ req.op = "set_pin" /\ req.pc = "join_flash"
  /\ FlashJoined(req.pin)
  /\ SetPinFinish(req, ClearFlashing(pin_states, req.pin))
  /\ UNCHANGED <<flashVars, clockVars, compVars, threads, ops>>

set_pin == (\E pin \in Pins, state \in {0, 1} : SetPinCall(pin, state)) \/ SetPinJoin

\* ---- set_pin_mode
\* GPIO.input(pin) is whatever level the outside world drives
SetPinModeFinish(r, ps) ==
  /\ IF r.mode = "IN"
     THEN /\ gpio' = GPIO_setup(gpio, r.pin, "IN")
          /\ \E level \in {0, 1} :
               pin_states' = [ps EXCEPT ![r.pin].state = level, ![r.pin].mode = r.mode]
     ELSE /\ gpio' = GPIO_output(GPIO_setup(gpio, r.pin, "OUT"), r.pin, 0)
          /\ pin_states' = [ps EXCEPT ![r.pin].state = 0, ![r.pin].mode = r.mode]
  /\ req' = Returning(r, "success")

SetPinModeCall(pin, mode) ==
  LET r == [Request("set_pin_mode", pin) EXCEPT !.mode = mode] IN
  /\ Accept
  /\ IF pin_states[pin].flashing
     THEN /\ flashing_pins' = Put(flashing_pins, pin, FALSE)
          /\ req' = [r EXCEPT !.pc = "join_flash"]
          /\ UNCHANGED <<pin_states, gpio>>
     ELSE /\ SetPinModeFinish(r, pin_states)
          /\ UNCHANGED flashing_pins
  /\ UNCHANGED <<flash_threads, clockVars, compVars, threads>>

SetPinModeJoin ==
  /\ req.op = "set_pin_mode" /\ req.pc = "join_flash"
  /\ FlashJoined(req.pin)
  /\ SetPinModeFinish(req, ClearFlashing(pin_states, req.pin))
  /\ UNCHANGED <<flashVars, clockVars, compVars, threads, ops>>

set_pin_mode ==
  (\E pin \in Pins, mode \in {"OUT", "IN"} : SetPinModeCall(pin, mode)) \/ SetPinModeJoin

\* ---- toggle_flash
\* (mutant: a thread is started whether or not the pin is flashing already)
FlashMayStart_Always(pin) == TRUE

\* "if not pin_states[pin]['flashing']:" in front of the thread start
FlashMayStart(pin) == ~pin_states[pin].flashing

\* thread = threading.Thread(target=flash_pin, args=(pin, speed))
FlashThread(pin, speed) == Thread("flash", pin, "setup", speed)

\* req.branch records which branch of the handler was taken
ToggleFlashCall(pin, enabled, speed) ==
  LET r == [Request("toggle_flash", pin) EXCEPT !.enabled = enabled, !.speed = speed]
      ps == [pin_states EXCEPT ![pin].flash_speed = speed]
  IN
  /\ Accept
  /\ IF enabled
     THEN IF FlashMayStart(pin)
          THEN /\ gpio' = ensure_pin_setup(gpio, pin, "OUT")
               /\ pin_states' = [ps EXCEPT ![pin].flashing = TRUE]
               /\ flashing_pins' = Put(flashing_pins, pin, TRUE)
               /\ flash_threads' = Put(flash_threads, pin, NewTid("flash", pin))
               /\ threads' = Put(threads, NewTid("flash", pin), FlashThread(pin, speed))
               /\ req' = Returning([r EXCEPT !.branch = "started"], "success")
          ELSE /\ pin_states' = ps
               /\ req' = Returning([r EXCEPT !.branch = "already_flashing"], "success")
               /\ UNCHANGED <<gpio, flashVars, threads>>
     ELSE IF pin_states[pin].flashing
          THEN /\ pin_states' = ps
               /\ flashing_pins' = Put(flashing_pins, pin, FALSE)
               /\ req' = [r EXCEPT !.pc = "join_flash", !.branch = "stopped"]
               /\ UNCHANGED <<gpio, flash_threads, threads>>
          ELSE /\ pin_states' = ps
               /\ req' = Returning([r EXCEPT !.branch = "not_flashing"], "success")
               /\ UNCHANGED <<gpio, flashVars, threads>>
  /\ UNCHANGED <<clockVars, compVars>>

ToggleFlashJoin ==
  /\ req.op = "toggle_flash" /\ req.pc = "join_flash"
  /\ FlashJoined(req.pin)
  /\ gpio' = GPIO_output(ensure_pin_setup(gpio, req.pin, "OUT"), req.pin, 0)
  /\ pin_states' = [ClearFlashing(pin_states, req.pin) EXCEPT ![req.pin].state = 0]
  /\ req' = Returning(req, "success")
  /\ UNCHANGED <<flashVars, clockVars, compVars, threads, ops>>

toggle_flash ==
  \/ \E pin \in Pins, enabled \in BOOLEAN, speed \in Speeds :
       ToggleFlashCall(pin, enabled, speed)
  \/ ToggleFlashJoin

\* ---- reset_all
\* (mutant: the loop skips no pin)
ResetSkips_NoPin(ps, pin) == FALSE

\* "if pin_states[pin].get('component', False): continue"
ResetSkips(ps, pin) == ps[pin].component

\* the loop body after the flash thread has been stopped
ResetPinHw(g, pin) == GPIO_output(ensure_pin_setup(g, pin, "OUT"), pin, 0)

ResetPinPs(ps, pin) ==
  [ps EXCEPT ![pin].mode = "OUT", ![pin].state = 0, ![pin].flashing = FALSE]

\* the loop from iteration idx on, up to the first join: the records and the
\* hardware it leaves, and whether it stops at idx to join a flash thread
RECURSIVE ResetRun(_, _, _)
ResetRun(idx, ps, g) ==
  IF idx > Len(PinSeq)
  THEN [idx |-> idx, ps |-> ps, g |-> g, blocked |-> FALSE]
  ELSE IF ResetSkips(ps, PinSeq[idx])
  THEN ResetRun(idx + 1, ps, g)
  ELSE IF ps[PinSeq[idx]].flashing
  THEN [idx |-> idx, ps |-> ps, g |-> g, blocked |-> TRUE]
  ELSE ResetRun(idx + 1, ResetPinPs(ps, PinSeq[idx]), ResetPinHw(g, PinSeq[idx]))

ResetProceed(r, run) ==
  /\ pin_states' = run.ps
  /\ gpio' = run.g
  /\ IF run.blocked
     THEN /\ flashing_pins' = Put(flashing_pins, PinSeq[run.idx], FALSE)
          /\ req' = [r EXCEPT !.pc = "join_flash", !.idx = run.idx,
                              !.pin = PinSeq[run.idx]]
     ELSE /\ flashing_pins' = flashing_pins
          /\ req' = Returning(r, "success")

ResetAllCall ==
  /\ Accept
  /\ ResetProceed(Request("reset_all", 0), ResetRun(1, pin_states, gpio))
  /\ UNCHANGED <<flash_threads, clockVars, compVars, threads>>

ResetAllJoin ==
  /\ req.op = "reset_all" /\ req.pc = "join_flash"
  /\ FlashJoined(req.pin)
  /\ ResetProceed(req, ResetRun(req.idx + 1, ResetPinPs(pin_states, req.pin),
                                ResetPinHw(gpio, req.pin)))
  /\ UNCHANGED <<flash_threads, clockVars, compVars, threads, ops>>

reset_all == ResetAllCall \/ ResetAllJoin

\* ---- toggle_clock
\* the turn-off pass of the stop branch: "if pin in GPIO_PINS:" is its only guard
ClockOffMayWrite(ps, pin) == pin \in GPIO_PINS

ClockOffHw(g, pin) == GPIO_output(ensure_pin_setup(g, pin, "OUT"), pin, 0)

ClockOffPs(ps, pin) == [ps EXCEPT ![pin].state = 0]

\* what either pass does to a pin once no flash thread runs on it
ClockPassPs(mode, ps, pin) ==
  IF mode = "stop" /\ ClockOffMayWrite(ps, pin) THEN ClockOffPs(ps, pin) ELSE ps

ClockPassHw(mode, ps, g, pin) ==
  IF mode = "stop" /\ ClockOffMayWrite(ps, pin) THEN ClockOffHw(g, pin) ELSE g

\* either pass over get_all_clock_pins() from iteration idx on, up to the
\* first join of a flash thread
RECURSIVE ClockPassRun(_, _, _, _)
ClockPassRun(mode, idx, ps, g) ==
  IF idx > Len(ClockPinSeq)
  THEN [idx |-> idx, ps |-> ps, g |-> g, blocked |-> FALSE]
  ELSE IF ClockPinSeq[idx] \in GPIO_PINS /\ ps[ClockPinSeq[idx]].flashing
  THEN [idx |-> idx, ps |-> ps, g |-> g, blocked |-> TRUE]
  ELSE ClockPassRun(mode, idx + 1, ClockPassPs(mode, ps, ClockPinSeq[idx]),
                    ClockPassHw(mode, ps, g, ClockPinSeq[idx]))

\* clock_thread = threading.Thread(target=clock_display_thread)
ClockThread == Thread("clock", 0, "loop", 0)

\* after the pass the stop branch returns and the start branch sets
\* clock_running and starts the thread; ct is the value of clock_thread so far
ClockProceed(r, run, ct) ==
  /\ pin_states' = run.ps
  /\ gpio' = run.g
  /\ IF run.blocked
     THEN /\ flashing_pins' = Put(flashing_pins, ClockPinSeq[run.idx], FALSE)
          /\ req' = [r EXCEPT !.pc = "join_flash", !.idx = run.idx,
                              !.pin = ClockPinSeq[run.idx]]
          /\ clock_thread' = ct
          /\ UNCHANGED <<clock_running, threads>>
     ELSE /\ flashing_pins' = flashing_pins
          /\ req' = Returning(r, "success")
          /\ IF r.mode = "start"
             THEN /\ clock_running' = TRUE
                  /\ clock_thread' = NewTid("clock", 0)
                  /\ threads' = Put(threads, NewTid("clock", 0), ClockThread)
             ELSE /\ clock_thread' = ct
                  /\ UNCHANGED <<clock_running, threads>>

ToggleClockCall ==
  /\ Accept
  /\ IF clock_running
     THEN /\ clock_running' = FALSE
          /\ req' = [Request("toggle_clock", 0) EXCEPT !.mode = "stop", !.pc = "join_clock"]
          /\ UNCHANGED <<pin_states, gpio, flashing_pins, clock_thread, threads>>
     ELSE ClockProceed([Request("toggle_clock", 0) EXCEPT !.mode = "start"],
                       ClockPassRun("start", 1, pin_states, gpio), clock_thread)
  /\ UNCHANGED <<flash_threads, compVars>>

\* "if clock_thread: clock_thread.join(); clock_thread = None"
ClockJoined == clock_thread # NoThread => Joined(clock_thread)

ToggleClockJoin ==
  /\ req.op = "toggle_clock" /\ req.pc = "join_clock"
  /\ ClockJoined
  /\ ClockProceed(req, ClockPassRun("stop", 1, pin_states, gpio), NoThread)
  /\ UNCHANGED <<flash_threads, compVars, ops>>

ToggleClockFlashJoin ==
  /\ req.op = "toggle_clock" /\ req.pc = "join_flash"
  /\ FlashJoined(req.pin)
  /\ LET ps == ClearFlashing(pin_states, req.pin) IN
       ClockProceed(req,
                    ClockPassRun(req.mode, req.idx + 1,
                                 ClockPassPs(req.mode, ps, req.pin),
                                 ClockPassHw(req.mode, ps, gpio, req.pin)),
                    clock_thread)
  /\ UNCHANGED <<flash_threads, compVars, ops>>

toggle_clock == ToggleClockCall \/ ToggleClockJoin \/ ToggleClockFlashJoin

\* ---- ComponentRegistry
None == "None"

\* DHT22Component.__init__ / DHT11Component.__init__ (the same but for names):
\* raises ImportError without the Adafruit_DHT library, ValueError when
\* gpio_pins.get('data') is None or 0, and otherwise constructs the instance
Exceptions == {"ImportError", "ValueError"}

Construct(component_class, gpio_pins, available) ==
  IF ~available THEN "ImportError"
  ELSE IF Get(gpio_pins, "data", 0) = 0 THEN "ValueError"
  ELSE component_class

\* (mutant: the exception of the constructor reaches the caller)
Caught_Propagates(outcome) == outcome

\* try: ... except Exception as e: ... return None
Caught(outcome) == IF outcome \in Exceptions THEN None ELSE outcome

\* create_component: None for an unregistered type or a failed constructor,
\* else the class of the new instance
create_component(classes, component_type, gpio_pins, available) ==
  IF component_type \notin DOMAIN classes
  THEN None
  ELSE Caught(Construct(classes[component_type], gpio_pins, available))

\* DHT22_AVAILABLE / DHT11_AVAILABLE: the handlers are modelled on a host
\* that has the Adafruit_DHT library
DHT_AVAILABLE == TRUE

\* BOARD_TO_BCM.get(board_pin, board_pin)
BcmPin(board_pin) ==
  IF DictGet(BOARD_TO_BCM, board_pin) = 0 THEN board_pin
  ELSE DictGet(BOARD_TO_BCM, board_pin)

\* gpio_pins = {'data': pin}, the data pin converted to BCM for DHT sensors
GpioPins(component_type, pin) ==
  [role \in {"data"} |->
     IF component_type \in {"dht22", "dht11"} THEN BcmPin(pin) ELSE pin]

\* The component objects are named by class, pin and a number n: a new one
\* takes the least n that no object of its pin, bound or released, has.
NewInstance(component_class, pin) ==
  LET used == {o.n : o \in {x \in Range(instances) \cup DOMAIN cleanup_calls :
                                x.pin = pin}}
  IN [cls |-> component_class, pin |-> pin,
      n |-> CHOOSE n \in 1..(Cardinality(used) + 1) : n \notin used]

\* remove_component: component.cleanup(); del self.instances[pin]
registry_remove_component(inst, pin) == Del(inst, pin)

\* the component.cleanup() call of remove_component, counted per object
component_cleanup(calls, inst, pin) ==
  IF pin \in DOMAIN inst
  THEN Put(calls, inst[pin], Get(calls, inst[pin], 0) + 1)
  ELSE calls

\* assign_component: remove an existing instance, then store the new one
registry_assign_component(inst, pin, component) ==
  Put(IF pin \in DOMAIN inst THEN registry_remove_component(inst, pin) ELSE inst,
      pin, component)

\* component_type.upper()
Upper(component_type) ==
  CASE component_type = "dht22" -> "DHT22"
    [] component_type = "dht11" -> "DHT11"
    [] OTHER -> "BOGUS"

\* GPIO.cleanup(pin): the channel is no longer set up
GPIO_cleanup(g, pin) == [g EXCEPT ![pin] = [mode |-> "UNSET", level |-> 0]]

\* thread = threading.Thread(target=component_read_thread, args=(pin,))
ComponentThread(pin) == Thread("component", pin, "stabilize", 0)

\* ---- assign_component
\* from the GPIO clean-up to the response; ps, cr, cth are the values of
\* pin_states, component_running and component_threads so far
AssignFinish(r, ps, cr, cth) ==
  LET component == create_component(component_classes, r.ctype,
                                    GpioPins(r.ctype, r.pin), DHT_AVAILABLE) IN
  /\ gpio' = IF r.ctype \notin {"dht22", "dht11"} THEN GPIO_cleanup(gpio, r.pin) ELSE gpio
  /\ IF component = None
     THEN /\ req' = Returning(r, "failed")
          /\ pin_states' = ps
          /\ component_running' = cr
          /\ component_threads' = cth
          /\ UNCHANGED <<instances, cleanup_calls, threads>>
     ELSE /\ instances' = registry_assign_component(instances, r.pin,
                                                    NewInstance(component, r.pin))
          /\ cleanup_calls' = component_cleanup(cleanup_calls, instances, r.pin)
          /\ pin_states' = [ps EXCEPT ![r.pin].mode = Upper(r.ctype),
                                      ![r.pin].component = TRUE]
          /\ component_running' = Put(cr, r.pin, TRUE)
          /\ component_threads' = Put(cth, r.pin, NewTid("component", r.pin))
          /\ threads' = Put(threads, NewTid("component", r.pin), ComponentThread(r.pin))
          /\ req' = Returning(r, "success")

\* "if pin_states[pin].get('flashing', False): ..." and what follows it
AssignStopFlash(r, cr, cth) ==
  IF pin_states[r.pin].flashing
  THEN /\ flashing_pins' = Put(flashing_pins, r.pin, FALSE)
       /\ req' = [r EXCEPT !.pc = "join_flash"]
       /\ component_running' = cr
       /\ component_threads' = cth
       /\ UNCHANGED <<pin_states, gpio, instances, cleanup_calls, threads>>
  ELSE /\ flashing_pins' = flashing_pins
       /\ AssignFinish(r, pin_states, cr, cth)

\* "if pin in component_running: component_running[pin] = False"
StopComponent(cr, pin) == IF pin \in DOMAIN cr THEN Put(cr, pin, FALSE) ELSE cr

\* the handler then joins "if pin in component_threads"
ComponentMustJoin(pin) ==
  pin \in DOMAIN component_running /\ pin \in DOMAIN component_threads

AssignCall(pin, component_type) ==
  LET r == [Request("assign_component", pin) EXCEPT !.ctype = component_type] IN
  /\ Accept
  /\ IF ComponentMustJoin(pin)
     THEN /\ component_running' = StopComponent(component_running, pin)
          /\ req' = [r EXCEPT !.pc = "join_component"]
          /\ UNCHANGED <<pin_states, gpio, flashing_pins, component_threads,
                         instances, cleanup_calls, threads>>
     ELSE AssignStopFlash(r, StopComponent(component_running, pin), component_threads)
  /\ UNCHANGED <<flash_threads, clockVars, component_data, component_classes>>

AssignComponentJoin ==
  /\ req.op = "assign_component" /\ req.pc = "join_component"
  /\ ComponentJoined(req.pin)
  /\ AssignStopFlash(req, component_running, Del(component_threads, req.pin))
  /\ UNCHANGED <<flash_threads, clockVars, component_data, component_classes, ops>>

AssignFlashJoin ==
  /\ req.op = "assign_component" /\ req.pc = "join_flash"
  /\ FlashJoined(req.pin)
  /\ flashing_pins' = flashing_pins
  /\ AssignFinish(req, ClearFlashing(pin_states, req.pin),
                  component_running, component_threads)
  /\ UNCHANGED <<flash_threads, clockVars, component_data, component_classes, ops>>

assign_component ==
  \/ \E pin \in Pins, component_type \in ComponentTypes : AssignCall(pin, component_type)
  \/ AssignComponentJoin
  \/ AssignFlashJoin

\* ---- remove_component
RemoveFinish(r, cth) ==
  /\ component_threads' = cth
  /\ instances' = registry_remove_component(instances, r.pin)
  /\ cleanup_calls' = component_cleanup(cleanup_calls, instances, r.pin)
  /\ pin_states' = [pin_states EXCEPT ![r.pin].mode = "IN", ![r.pin].component = FALSE]
  /\ component_data' = Del(component_data, r.pin)
  /\ req' = Returning(r, "success")

RemoveCall(pin) ==
  /\ Accept
  /\ component_running' = StopComponent(component_running, pin)
  /\ IF ComponentMustJoin(pin)
     THEN /\ req' = [Request("remove_component", pin) EXCEPT !.pc = "join_component"]
          /\ UNCHANGED <<pin_states, component_threads, component_data, instances,
                         cleanup_calls>>
     ELSE RemoveFinish(Request("remove_component", pin), component_threads)
  /\ UNCHANGED <<flashVars, clockVars, component_classes, threads, gpio>>

RemoveJoin ==
  /\ req.op = "remove_component" /\ req.pc = "join_component"
  /\ ComponentJoined(req.pin)
  /\ RemoveFinish(req, Del(component_threads, req.pin))
  /\ UNCHANGED <<flashVars, clockVars, component_running, component_classes,
                 threads, gpio, ops>>

remove_component == (\E pin \in Pins : RemoveCall(pin)) \/ RemoveJoin

\* ---- toggle_peripheral
\* available_modes.index(current_mode), counted from 1; 0 for ValueError
IndexOf(modes, current_mode) ==
  IF \E i \in 1..Len(modes) : modes[i] = current_mode
  THEN CHOOSE i \in 1..Len(modes) :
         modes[i] = current_mode /\ \A j \in 1..(i - 1) : modes[j] # current_mode
  ELSE 0

\* (mutant: the index stops at the last mode)
next_index_NoWrap(current_index, n) ==
  IF current_index < n THEN current_index + 1 ELSE n

\* next_index = (current_index + 1) % len(available_modes), counted from 1
next_index(current_index, n) == (current_index % n) + 1

\* try: ... except ValueError: new_mode = available_modes[0]
new_mode(modes, current_mode) ==
  IF IndexOf(modes, current_mode) = 0
  THEN modes[1]
  ELSE modes[next_index(IndexOf(modes, current_mode), Len(modes))]

\* the dtparam / modprobe calls act outside the program and their failures
\* are caught; the handler then records the new mode
TogglePeripheral(pin) ==
  /\ Accept
  /\ pin_states' = [pin_states EXCEPT ![pin].peripheral_mode =
                                        new_mode(available_modes(pin), @)]
  /\ req' = Returning(Request("toggle_peripheral", pin), "success")
  /\ UNCHANGED <<flashVars, clockVars, compVars, threads, gpio>>

toggle_peripheral == \E pin \in Pins : TogglePeripheral(pin)

\* ---- load_configuration
\* A configuration file is a 'pins' dict and a 'components' dict, keyed by
\* pin; a file may also be missing or lack the 'pins' key.
MaxEntries == 2
SnapshotKeys == Pins \cup {999}
SnapshotSettings ==
  {[mode |-> "OUT", state |-> 1, peripheral_mode |-> "SPI0 SCLK", flash_speed |-> 200],
   [mode |-> "IN", state |-> 0, peripheral_mode |-> "GPIO", flash_speed |-> 500]}
SnapshotTypes == {"dht22", "bogus"}

Dicts(keys, values) ==
  UNION {[K -> values] : K \in {L \in SUBSET keys : Cardinality(L) <= MaxEntries}}

Snapshots ==
  [file : {"ok"},
   pins : Dicts(SnapshotKeys, SnapshotSettings),
   components : Dicts(SnapshotKeys, SnapshotTypes)]

\* "if not os.path.exists(filepath)" and "if 'pins' not in config"
BadFiles == [file : {"not_found", "no_pins_key"}, pins : {<<>>}, components : {<<>>}]

\* "if pin in GPIO_PINS:" of the pins loop
LoadedPins(config) == {pin \in DOMAIN config.pins : pin \in GPIO_PINS}

\* the hardware calls of one 'pins' entry
LoadPinHw(g, pin, settings) ==
  IF settings.mode = "OUT"
  THEN GPIO_output(ensure_pin_setup(g, pin, "OUT"), pin,
                   IF settings.state # 0 THEN 1 ELSE 0)
  ELSE GPIO_setup(g, pin, "IN")

\* the four record fields one 'pins' entry sets
LoadPinPs(ps, settings) ==
  [ps EXCEPT !.mode = settings.mode, !.state = settings.state,
             !.peripheral_mode = settings.peripheral_mode,
             !.flash_speed = settings.flash_speed]

\* component_registry.create_component(...) for one 'components' entry
LoadCreate(config, pin) ==
  create_component(component_classes, config.components[pin],
                   GpioPins(config.components[pin], pin), DHT_AVAILABLE)

\* (mutant: the second loop binds whatever create_component returned)
LoadBoundPins_NoCreateCheck(config) ==
  {pin \in DOMAIN config.components : pin \in GPIO_PINS}

\* "if pin not in GPIO_PINS: continue" and "if component:" of the second loop
LoadBoundPins(config) ==
  {pin \in DOMAIN config.components :
     pin \in GPIO_PINS /\ LoadCreate(config, pin) # None}

\* The two loops; the entries of different pins do not touch each other.
LoadApply(config) ==
  LET loaded == LoadedPins(config)
      bound == LoadBoundPins(config)
      ps1 == [pin \in Pins |->
                IF pin \in loaded THEN LoadPinPs(pin_states[pin], config.pins[pin])
                ELSE pin_states[pin]]
  IN
  /\ gpio' = [pin \in Pins |->
                IF pin \in loaded THEN LoadPinHw(gpio, pin, config.pins[pin])[pin]
                ELSE gpio[pin]]
  /\ pin_states' = [pin \in Pins |->
                      IF pin \in bound
                      THEN [ps1[pin] EXCEPT !.mode = Upper(config.components[pin]),
                                            !.component = TRUE]
                      ELSE ps1[pin]]
  /\ instances' = [pin \in DOMAIN instances \cup bound |->
                     IF pin \in bound
                     THEN registry_assign_component(
                            instances, pin,
                            NewInstance(LoadCreate(config, pin), pin))[pin]
                     ELSE instances[pin]]
  /\ cleanup_calls' =
       [o \in DOMAIN cleanup_calls \cup {instances[pin] : pin \in bound \cap DOMAIN instances} |->
          IF \E pin \in bound \cap DOMAIN instances : instances[pin] = o
          THEN component_cleanup(cleanup_calls, instances, o.pin)[o]
          ELSE cleanup_calls[o]]
  /\ component_running' = [pin \in DOMAIN component_running \cup bound |->
                             IF pin \in bound THEN TRUE ELSE component_running[pin]]
  /\ component_threads' = [pin \in DOMAIN component_threads \cup bound |->
                             IF pin \in bound THEN NewTid("component", pin)
                             ELSE component_threads[pin]]
  /\ threads' = [t \in DOMAIN threads \cup {NewTid("component", pin) : pin \in bound} |->
                   IF t \in DOMAIN threads THEN threads[t]
                   ELSE ComponentThread(t[2])]

\* what the import leaves in the log for the entries it passes over:
\* create_component logs "Unknown component type" for an unregistered type;
\* the "if pin in GPIO_PINS" / "continue" of the two loops log nothing
LoadLogged(config) ==
  {<<"components", pin>> :
     pin \in {q \in DOMAIN config.components :
                q \in GPIO_PINS
                  /\ config.components[q] \notin DOMAIN component_classes}}

\* the entries the two loops pass over: a pin outside GPIO_PINS, a component
\* that create_component does not return
LoadSkipped(config) ==
  {<<"pins", pin>> : pin \in DOMAIN config.pins \ LoadedPins(config)}
    \cup {<<"components", pin>> :
             pin \in DOMAIN config.components \ LoadBoundPins(config)}

\* load_configuration(filename), called from api_load_config, which answers
\* {'success': <what load_configuration returned>}
LoadConfiguration(config) ==
  /\ Accept
  /\ IF config \in BadFiles
     THEN /\ req' = Returning([Request("load_configuration", 0) EXCEPT
                                !.config = config], "False")
          /\ UNCHANGED <<pin_states, gpio, instances, cleanup_calls,
                         component_running, component_threads, threads>>
     ELSE /\ LoadApply(config)
          /\ req' = Returning([Request("load_configuration", 0) EXCEPT
                                !.config = config], "True")
  /\ UNCHANGED <<flashVars, clockVars, component_data, component_classes>>

load_configuration == \E config \in Snapshots \cup BadFiles : LoadConfiguration(config)

\* ---- save_configuration
\* component.__class__.__name__.lower().replace('component', '')
TypeTag(component_class) ==
  CASE component_class = "DHT22Component" -> "dht22"
    [] component_class = "DHT11Component" -> "dht11"
    [] OTHER -> "unknown"

\* the four fields save_configuration writes for a pin
SavedSettings(state) ==
  [mode |-> state.mode, state |-> state.state,
   peripheral_mode |-> state.peripheral_mode, flash_speed |-> state.flash_speed]

\* config = {'pins': {...}, 'components': {...}} as written to the file
save_configuration(ps, inst) ==
  [file |-> "ok",
   pins |-> [pin \in DOMAIN ps |-> SavedSettings(ps[pin])],
   components |-> [pin \in DOMAIN inst |-> TypeTag(inst[pin].cls)]]

\* save_configuration(filename) followed at once by load_configuration of
\* the file it wrote
SaveAndLoad ==
  /\ Accept
  /\ LET config == save_configuration(pin_states, instances)
     IN /\ LoadApply(config)
        /\ req' = Returning([Request("save_and_load", 0) EXCEPT !.config = config],
                            "True")
  /\ UNCHANGED <<flashVars, clockVars, component_data, component_classes>>

\* the files that hold at most one entry, a component
ComponentSnapshots ==
  {config \in Snapshots :
     config.pins = <<>> /\ Cardinality(DOMAIN config.components) <= 1}

\* ---- get_component_data
\* component_data.get(pin, {}): what the stored entry holds, or the empty dict
StoredData(cd, pin) == IF pin \in DOMAIN cd THEN cd[pin].data ELSE "{}"

\* get_component(pin) is None: 404; otherwise success with the stored data
GetComponentData(pin) ==
  /\ Accept
  /\ req' = IF pin \notin DOMAIN instances
            THEN Returning(Request("get_component_data", pin),
                           "No component assigned to this pin")
            ELSE Returning([Request("get_component_data", pin) EXCEPT
                              !.data = StoredData(component_data, pin)],
                           "success")
  /\ UNCHANGED <<pin_states, flashVars, clockVars, compVars, threads, gpio>>

get_component_data == \E pin \in Pins : GetComponentData(pin)

\* (mutant: the hardware is read whatever the recorded mode)
ReadPin_AlwaysReads(pin) ==
  /\ Accept
  /\ \E level \in {0, 1} :
       /\ pin_states' = [pin_states EXCEPT ![pin].state = level]
       /\ req' = Returning([Request("read_pin", pin) EXCEPT !.state = level],
                           "success")
  /\ UNCHANGED <<flashVars, clockVars, compVars, threads, gpio>>

\* ---- read_pin
\* an input pin is read from the hardware, whatever level the outside world
\* drives, and recorded; for any other mode the recorded level is returned
ReadPin(pin) ==
  /\ Accept
  /\ IF pin_states[pin].mode = "IN"
     THEN \E level \in {0, 1} :
            /\ pin_states' = [pin_states EXCEPT ![pin].state = level]
            /\ req' = Returning([Request("read_pin", pin) EXCEPT !.state = level],
                                "success")
     ELSE /\ pin_states' = pin_states
          /\ req' = Returning([Request("read_pin", pin) EXCEPT
                                 !.state = pin_states[pin].state],
                              "success")
  /\ UNCHANGED <<flashVars, clockVars, compVars, threads, gpio>>

read_pin == \E pin \in Pins : ReadPin(pin)

\* ---- a pin outside GPIO_PINS
\* Every handler that takes a pin starts with
\*   if pin not in GPIO_PINS: return jsonify({'error': 'Invalid pin'}), 400
\* (assign_component after reading the request body, the others first thing).
PerPinOps ==
  {"set_pin", "set_pin_mode", "toggle_flash", "read_pin", "toggle_peripheral",
   "assign_component", "remove_component", "get_component_data"}

InvalidPins == {999}

\* (mutant: the handler answers as if the pin existed)
InvalidPinResponse_Success(r) == Returning(r, "success")

InvalidPinResponse(r) == Returning(r, "Invalid pin")

InvalidPinCall(op, pin) ==
  /\ Accept
  /\ pin \notin GPIO_PINS
  /\ req' = InvalidPinResponse(Request(op, pin))
  /\ UNCHANGED <<pin_states, flashVars, clockVars, compVars, threads, gpio>>

invalid_pin == \E op \in PerPinOps, pin \in InvalidPins : InvalidPinCall(op, pin)

\* ---- cleanup
\* Called once, when the server has stopped serving; nothing is accepted
\* after it. component_registry.cleanup_all(): remove_component for every
\* pin that has an instance.
RECURSIVE cleanup_all_calls(_, _)
cleanup_all_calls(calls, inst) ==
  IF DOMAIN inst = {}
  THEN calls
  ELSE LET pin == CHOOSE p \in DOMAIN inst : TRUE
       IN cleanup_all_calls(component_cleanup(calls, inst, pin),
                            registry_remove_component(inst, pin))

\* "if clock_running: clock_running = False; if clock_thread: join()"
CleanupCall ==
  /\ Idle
  /\ ops' = MaxOps
  /\ clock_running' = FALSE
  /\ req' = [Request("cleanup", 0) EXCEPT
               !.pc = "join_clock",
               !.mode = IF clock_running THEN "stop" ELSE ""]
  /\ UNCHANGED <<pin_states, flashVars, clock_thread, compVars, threads, gpio>>

\* the join of the clock thread returns; every component_running flag is
\* cleared and the threads in component_threads are joined next
CleanupStopComponents ==
  /\ req.op = "cleanup" /\ req.pc = "join_clock"
  /\ req.mode = "stop" => ClockJoined
  /\ component_running' = [pin \in DOMAIN component_running |-> FALSE]
  /\ req' = [req EXCEPT !.pc = "join_component"]
  /\ UNCHANGED <<pin_states, flashVars, clockVars, component_threads, component_data,
                 instances, component_classes, cleanup_calls, threads, gpio, ops>>

\* the joins return; cleanup_all(), the flashing flags, GPIO.cleanup()
CleanupFinish ==
  /\ req.op = "cleanup" /\ req.pc = "join_component"
  /\ \A pin \in DOMAIN component_threads : Joined(component_threads[pin])
  /\ cleanup_calls' = cleanup_all_calls(cleanup_calls, instances)
  /\ instances' = <<>>
  /\ flashing_pins' = [pin \in DOMAIN flashing_pins |-> FALSE]
  /\ gpio' = [pin \in DOMAIN gpio |-> GPIO_cleanup(gpio, pin)[pin]]
  /\ req' = Returning(req, "done")
  /\ UNCHANGED <<pin_states, flash_threads, clockVars, component_running,
                 component_threads, component_data, component_classes, threads, ops>>

cleanup == CleanupCall \/ CleanupStopComponents \/ CleanupFinish

\* the response of a request is sent; cleanup has none, the process ends
Respond == req.op # "cleanup" /\ Return

\* ------------------------------------------------------------- the system
Handlers ==
  \/ set_pin
  \/ set_pin_mode
  \/ toggle_flash
  \/ reset_all
  \/ toggle_clock
  \/ assign_component
  \/ remove_component
  \/ Return

\* every thread object that MaxOps requests can have started
FlashThreadIds == {<<"flash", p, n>> : p \in Pins, n \in 1..MaxOps}
ClockThreadIds == {<<"clock", 0, n>> : n \in 1..MaxOps}
ComponentThreadIds == {<<"component", p, n>> : p \in Pins, n \in 1..MaxOps}

Background ==
  \/ \E t \in FlashThreadIds : flash_pin(t)
  \/ \E t \in ClockThreadIds : clock_display_thread(t)
  \/ \E t \in ComponentThreadIds : component_read_thread(t)

Next == Handlers \/ Background

Spec == Init /\ [][Next]_vars

\* ------------------------------------------------ failing hardware calls
\* The same system with hardware calls of the threads that may fail.
HardwareFailures ==
  \/ \E t \in FlashThreadIds : FlashSetupFails(t) \/ FlashOutputRaises(t)
  \/ \E t \in ClockThreadIds : ClockOutputRaises(t)

NextHardware == Next \/ HardwareFailures

SpecHardware == Init /\ [][NextHardware]_vars

\* --------------------------------------------------- ticks left to themselves
\* The clock display with requests that arrive only while the clock thread
\* sleeps between two ticks (time.sleep(1) at the end of the loop body), and
\* without flash threads: every tick runs from its first to its last write
\* with no other writer in between.
ClockAsleep ==
  \A t \in DOMAIN threads : threads[t].kind = "clock" => threads[t].pc = "loop"

TickSetPin ==
  ClockAsleep /\ \E pin \in Pins, state \in {0, 1} : SetPinCall(pin, state)

TickAssign ==
  ClockAsleep /\ ((\E pin \in Pins : AssignCall(pin, "dht22")) \/ AssignComponentJoin)

TickRemove == ClockAsleep /\ remove_component

TickToggleClock == ClockAsleep /\ (ToggleClockCall \/ ToggleClockJoin)

NextTick ==
  \/ TickSetPin
  \/ TickAssign
  \/ TickRemove
  \/ TickToggleClock
  \/ Return
  \/ \E t \in ClockThreadIds : clock_display_thread(t)
  \/ \E t \in ComponentThreadIds : component_read_thread(t)

SpecTick == Init /\ [][NextTick]_vars

\* ------------------------------------------------- components and readings
\* Binding, unbinding and reading components through the handlers, with the
\* polling threads.
NextReading ==
  \/ \E pin \in Pins, component_type \in ComponentTypes : AssignCall(pin, component_type)
  \/ AssignComponentJoin
  \/ remove_component
  \/ get_component_data
  \/ Return
  \/ \E t \in ComponentThreadIds : component_read_thread(t)

SpecReading == Init /\ [][NextReading]_vars

\* ------------------------------------------------------ the per-pin handlers
\* The handlers that take a pin, called with pins of the board and with a
\* pin that is not on it, with the flash and polling threads.
NextSurface ==
  \/ set_pin_mode
  \/ toggle_flash
  \/ read_pin
  \/ toggle_peripheral
  \/ assign_component
  \/ remove_component
  \/ get_component_data
  \/ invalid_pin
  \/ Return
  \/ \E t \in FlashThreadIds : flash_pin(t)
  \/ \E t \in ComponentThreadIds : component_read_thread(t)

SpecSurface == Init /\ [][NextSurface]_vars

\* ------------------------------------------------------------------ shutdown
\* Components bound, unbound and imported, the clock display toggled, the
\* polling and clock threads, and cleanup() at any moment between requests.
NextShutdown ==
  \/ \E pin \in Pins : AssignCall(pin, "dht22")
  \/ AssignComponentJoin
  \/ remove_component
  \/ \E config \in ComponentSnapshots : LoadConfiguration(config)
  \/ ToggleClockCall
  \/ ToggleClockJoin
  \/ cleanup
  \/ Respond
  \/ \E t \in ClockThreadIds : clock_display_thread(t)
  \/ \E t \in ComponentThreadIds : component_read_thread(t)

SpecShutdown == Init /\ [][NextShutdown]_vars

\* -------------------------------------------------- read() on its own
\* DHT22Component.read / DHT11Component.read (the same but for names).
\* One Adafruit_DHT.read(SENSOR_TYPE, data_pin) gives (humidity, temperature)
\* with either field possibly None, or raises.
MaxRetries == 3
SensorOutcomes == {"both", "humidity_only", "temperature_only", "neither", "raises"}
SensorRuns == [1..MaxRetries -> SensorOutcomes]

\* (mutant: no try around the loop, the exception leaves read())
ReadExcept_Propagates(attempt, sleeps) ==
  [result |-> "raises", attempts |-> attempt, sleeps |-> sleeps]

\* "except Exception as e: ... return {'temperature': None, 'humidity': None}"
ReadExcept(attempt, sleeps) ==
  [result |-> "none_marker", attempts |-> attempt, sleeps |-> sleeps]

\* "for attempt in range(1, self.retries + 1):" from attempt on, then the
\* test "if humidity is not None and temperature is not None" after the loop
RECURSIVE ReadLoop(_, _, _, _)
ReadLoop(attempt, retries, sensor, sleeps) ==
  IF attempt > retries
  THEN [result |-> "none_marker", attempts |-> attempt - 1, sleeps |-> sleeps]
  ELSE CASE sensor[attempt] = "raises" -> ReadExcept(attempt, sleeps)
         [] sensor[attempt] = "both" ->
              [result |-> "values", attempts |-> attempt, sleeps |-> sleeps]
         [] OTHER ->
              ReadLoop(attempt + 1, retries, sensor,
                       IF attempt < retries THEN sleeps + 1 ELSE sleeps)

ComponentRead(retries, sensor) == ReadLoop(1, retries, sensor, 0)

\* component.read() with self.retries = retries against a sensor that
\* answers its successive calls as in sensor
ReadCall(retries, sensor) ==
  /\ Accept
  /\ LET r == ComponentRead(retries, sensor)
     IN req' = Returning([Request("read", 0) EXCEPT
                            !.retries = retries, !.sensor = sensor,
                            !.attempts = r.attempts, !.sleeps = r.sleeps,
                            !.data = r.result],
                         "returned")
  /\ UNCHANGED <<pin_states, flashVars, clockVars, compVars, threads, gpio>>

NextRead ==
  \/ \E retries \in 0..MaxRetries, sensor \in SensorRuns : ReadCall(retries, sensor)
  \/ Return

SpecRead == Init /\ [][NextRead]_vars

\* ------------------------------------------------------- fair scheduling
\* Every live thread is scheduled again (its sleeps are finite), and a
\* handler that has been entered goes on whenever it can: a join returns
\* once its thread has ended. Requests need not arrive.
ThreadIds == FlashThreadIds \cup ClockThreadIds \cup ComponentThreadIds

ThreadStep(t) == flash_pin(t) \/ clock_display_thread(t) \/ component_read_thread(t)

HandlerStep == ~Idle /\ Handlers

\* Two requests are enough for every join: one starts the thread, the next
\* one stops and joins it.
MaxFairOps == 2
FairGate == Idle => ops < MaxFairOps

FairSetPin == FairGate /\ set_pin
FairSetPinMode == FairGate /\ set_pin_mode
FairToggleFlash == FairGate /\ toggle_flash
FairResetAll == FairGate /\ reset_all
FairToggleClock == FairGate /\ toggle_clock
FairAssignComponent == FairGate /\ assign_component
FairRemoveComponent == FairGate /\ remove_component

NextFair ==
  \/ FairSetPin
  \/ FairSetPinMode
  \/ FairToggleFlash
  \/ FairResetAll
  \/ FairToggleClock
  \/ FairAssignComponent
  \/ FairRemoveComponent
  \/ Return
  \/ Background

SpecFair ==
  /\ Init /\ [][NextFair]_vars
  /\ \A t \in ThreadIds : WF_vars(ThreadStep(t))
  /\ WF_vars(HandlerStep)

\* ------------------------------------------- shutdown with flash threads
\* Pins set flashing, components bound and unbound, the clock display
\* toggled, every kind of thread, and cleanup() at any moment between
\* requests; no configuration is loaded.
NextRelease ==
  \/ toggle_flash
  \/ toggle_clock
  \/ \E pin \in Pins : AssignCall(pin, "dht22")
  \/ AssignComponentJoin
  \/ AssignFlashJoin
  \/ remove_component
  \/ cleanup
  \/ Respond
  \/ Background

SpecRelease == Init /\ [][NextRelease]_vars

\* ------------------------------------------------------------ round trip
\* Directions, levels, alternate functions and flash speeds set, components
\* bound and unbound, and the configuration saved and loaded back.
NextRoundTrip ==
  \/ \E pin \in Pins, state \in {0, 1} : SetPinCall(pin, state)
  \/ \E pin \in Pins, mode \in {"OUT", "IN"} : SetPinModeCall(pin, mode)
  \/ \E pin \in Pins, speed \in Speeds : ToggleFlashCall(pin, FALSE, speed)
  \/ toggle_peripheral
  \/ \E pin \in Pins : AssignCall(pin, "dht22")
  \/ AssignComponentJoin
  \/ remove_component
  \/ SaveAndLoad
  \/ Return
  \/ \E t \in ComponentThreadIds : component_read_thread(t)

SpecRoundTrip == Init /\ [][NextRoundTrip]_vars

\* =================================================================== claims
InClockLayout(p) == \E i \in 1..Len(get_all_clock_pins) : get_all_clock_pins[i] = p

OscillatorRunning(p) == LiveThreads("flash", p) # {}
ClockOwns(p) == clock_running /\ InClockLayout(p) /\ ~pin_states[p].component
ComponentBound(p) == p \in DOMAIN instances

Owners(p) ==
  (IF OscillatorRunning(p) THEN 1 ELSE 0) + (IF ClockOwns(p) THEN 1 ELSE 0)
    + (IF ComponentBound(p) THEN 1 ELSE 0)

\* C1 (as claimed): between requests, no pin has more than one of: a running
\* flash thread, the running clock display (layout pin without component),
\* a bound component.
C1_SingleWriter == Idle => \A p \in Pins : Owners(p) <= 1

\* the step in which a handler that takes a pin over makes its first write
\* to p: set_pin, set_pin_mode and assign_component in their last step,
\* reset_all in the step whose loop iterations cover p, toggle_clock in the
\* step that starts the clock thread
ResetCovers(p) ==
  /\ req'.op = "reset_all" /\ req' # req
  /\ \E i \in 1..Len(PinSeq) :
       /\ PinSeq[i] = p
       /\ ~pin_states[p].component
       /\ i >= (IF req.op = "reset_all" THEN req.idx ELSE 1)
       /\ i <= (IF req'.pc = "return" THEN Len(PinSeq) ELSE req'.idx - 1)

TakesOver(p) ==
  \/ /\ req.pc # "return" /\ req'.pc = "return"
     /\ req'.op \in {"set_pin", "set_pin_mode", "assign_component"}
     /\ req'.pin = p
  \/ ResetCovers(p)
  \/ /\ req.pc # "return" /\ req'.pc = "return"
     /\ req'.op = "toggle_clock" /\ req'.mode = "start"
     /\ InClockLayout(p)

\* C2: when set_pin, set_pin_mode, reset_all, the clock start or
\* assign_component takes pin p over, the flash thread of p has been
\* signalled (its flag is off) and is no longer alive in the step of the new
\* owner's first write, so it writes nothing afterwards.
C2_ClaimOrdering ==
  [][\A p \in Pins :
       TakesOver(p) => ~OscillatorRunning(p) /\ ~Get(flashing_pins, p, FALSE)]_vars

\* C2 witness: assign_component has returned on a pin whose flash thread the
\* one request before it had started.
C2_Witness ==
  /\ req.op = "assign_component" /\ req.pc = "return" /\ req.result = "success"
  /\ ops = 2
  /\ req.pin \in DOMAIN flash_threads

\* the clock thread t makes a hardware or record write to p in this step
ClockThreadWrites(t, p) ==
  /\ t \in DOMAIN threads
  /\ threads[t].pc \in {"hw", "rec"}
  /\ ClockPin(threads[t]) = p
  /\ threads'[t] # threads[t]

\* C3 (as claimed): once a component is marked as bound to p, the clock
\* thread makes no further hardware or record write to p.
C3_NoClockWriteAfterBind ==
  [][\A t \in ClockThreadIds, p \in Pins :
       ClockThreadWrites(t, p) => ~pin_states[p].component]_vars

\* C4: no pin ever has more than one live flash thread, and when
\* toggle_flash(p, enabled, T) returns, p has exactly one, is marked flashing
\* and has T recorded as its speed.
C4_OneOscillator ==
  /\ \A p \in Pins : Cardinality(LiveThreads("flash", p)) <= 1
  /\ (req.op = "toggle_flash" /\ req.pc = "return" /\ req.enabled)
       => /\ Cardinality(LiveThreads("flash", req.pin)) = 1
          /\ pin_states[req.pin].flashing
          /\ pin_states[req.pin].flash_speed = req.speed

\* C4 witness: toggle_flash(p, enabled, T) has returned on a pin that was
\* flashing already, with the same T as the running thread.
C4_Witness ==
  /\ req.op = "toggle_flash" /\ req.pc = "return" /\ req.branch = "already_flashing"
  /\ \E t \in LiveThreads("flash", req.pin) : FlashPeriod(t) = req.speed

\* C5 (as claimed): when toggle_flash(p, enabled, T2) returns, the flash
\* thread running on p sleeps with T2.
C5_LivePeriodUpdate ==
  (req.op = "toggle_flash" /\ req.pc = "return" /\ req.enabled)
    => \A t \in LiveThreads("flash", req.pin) : FlashPeriod(t) = req.speed

\* C6 (as claimed): toggle_flash(p, enabled) on a pin with a bound component
\* starts no flash thread and leaves the flashing flag off.
C6_NoOscillatorOnClaimedPin ==
  (req.op = "toggle_flash" /\ req.pc = "return" /\ req.enabled
     /\ pin_states[req.pin].component)
    => ~pin_states[req.pin].flashing /\ ~OscillatorRunning(req.pin)

\* the clock thread t takes a step
ClockThreadSteps(t) == t \in DOMAIN threads /\ threads' # threads /\
                       (t \notin DOMAIN threads' \/ threads'[t] # threads[t])

\* C7: at each pin of each pass of a tick, the clock thread goes on to write
\* the pin exactly if no component is bound to it (whatever is bound to the
\* other pins), and a step of the clock thread changes the hardware and the
\* record of no pin but the one it is at.
C7_TickSkipsClaimedPins ==
  [][\A t \in ClockThreadIds :
       ClockThreadSteps(t) =>
         /\ threads[t].pc = "test" =>
              (threads'[t].pc = "hw" <=> ~pin_states[ClockPin(threads[t])].component)
         /\ \A q \in Pins :
              (threads[t].pc = "loop" \/ q # ClockPin(threads[t]))
                => gpio'[q] = gpio[q] /\ pin_states'[q] = pin_states[q]]_vars

\* C7 witness: between requests, with a component bound to the first layout
\* pin, the clock thread has passed that pin and is writing the second one.
C7_Witness ==
  /\ Idle
  /\ Len(ClockPinSeq) >= 2
  /\ pin_states[ClockPinSeq[1]].component
  /\ \E t \in DOMAIN threads :
       /\ threads[t].kind = "clock" /\ threads[t].pc = "rec"
       /\ threads[t].phase = "clear" /\ threads[t].idx = 2
       /\ gpio[ClockPinSeq[1]].mode = "UNSET"

\* a step of the clock display: of the toggle_clock handler or the clock thread
ClockDisplaySteps ==
  \/ req'.op = "toggle_clock" /\ req' # req
  \/ \E t \in ClockThreadIds : ClockThreadSteps(t)

\* C8 (as claimed): no step of the clock display (start, tick, stop) changes
\* the hardware level or the recorded level of a layout pin with a component.
C8_ClockLeavesClaimedPins ==
  [][ClockDisplaySteps =>
       \A p \in Pins :
         (InClockLayout(p) /\ pin_states[p].component)
           => gpio'[p].level = gpio[p].level
              /\ pin_states'[p].state = pin_states[p].state]_vars

\* C9 (as claimed): when toggle_flash(p, disabled) returns after stopping a
\* running flash thread, the thread is dead, p is not marked flashing, its
\* recorded level is 0 and the hardware level is LOW.
C9_StoppedLow ==
  (req.op = "toggle_flash" /\ req.pc = "return" /\ req.branch = "stopped")
    => /\ ~OscillatorRunning(req.pin)
       /\ ~pin_states[req.pin].flashing
       /\ pin_states[req.pin].state = 0
       /\ gpio[req.pin].level = 0

\* C10 (as claimed): when reset_all returns, every pin without a component is
\* OUT, at level 0, not flashing and has no live flash thread.
C10_ResetUnclaimed ==
  (req.op = "reset_all" /\ req.pc = "return")
    => \A p \in Pins :
         ~pin_states[p].component
           => /\ pin_states[p].mode = "OUT"
              /\ pin_states[p].state = 0
              /\ ~pin_states[p].flashing
              /\ ~OscillatorRunning(p)

\* ---------------------------------- components, configuration, alt-functions
\* The handlers that bind, unbind and import components and cycle the
\* alt-function of a pin, with the polling threads; no flash or clock thread
\* runs here.
NextConfig ==
  \/ \E pin \in Pins, component_type \in ComponentTypes : AssignCall(pin, component_type)
  \/ AssignComponentJoin
  \/ remove_component
  \/ \E config \in ComponentSnapshots : LoadConfiguration(config)
  \/ Return
  \/ \E t \in ComponentThreadIds : component_read_thread(t)

SpecConfig == Init /\ [][NextConfig]_vars

\* --------------------------------------------------- import, alt-functions
\* load_configuration with every file of the bounded family, and
\* toggle_peripheral. The polling threads that an import starts are left at
\* their first step here: a polling thread writes component_data and nothing
\* else, which neither handler reads.
NextImport ==
  \/ load_configuration
  \/ toggle_peripheral
  \/ Return

SpecImport == Init /\ [][NextImport]_vars

\* ------------------------------------------------ the registry on its own
\* The calls of ComponentRegistry taken by themselves: register_class and
\* create_component with any type, class, pin mapping and library state.
RegistryTypes == {"dht22", "dht11", "bogus"}
RegistryClasses == {"DHT22Component", "DHT11Component"}
GpioPinsInputs == {<<>>, [role \in {"data"} |-> 17]}

\* component_registry.register_class(component_type, component_class)
RegisterClass(component_type, component_class) ==
  /\ Accept
  /\ component_classes' = register_class(component_classes, component_type,
                                         component_class)
  /\ req' = Returning([Request("register_class", 0) EXCEPT
                         !.ctype = component_type, !.cls = component_class],
                      "None")
  /\ UNCHANGED <<pin_states, flashVars, clockVars, component_running,
                 component_threads, component_data, instances, cleanup_calls,
                 threads, gpio>>

\* component_registry.create_component(component_type, name, gpio_pins, config)
CreateComponent(component_type, gpio_pins, available) ==
  /\ Accept
  /\ req' = Returning([Request("create_component", 0) EXCEPT
                         !.ctype = component_type, !.gpio_pins = gpio_pins,
                         !.available = available],
                      create_component(component_classes, component_type,
                                       gpio_pins, available))
  /\ UNCHANGED <<pin_states, flashVars, clockVars, compVars, threads, gpio>>

NextRegistry ==
  \/ \E component_type \in RegistryTypes, component_class \in RegistryClasses :
       RegisterClass(component_type, component_class)
  \/ \E component_type \in RegistryTypes, gpio_pins \in GpioPinsInputs,
        available \in BOOLEAN :
       CreateComponent(component_type, gpio_pins, available)
  \/ Return

SpecRegistry == Init /\ [][NextRegistry]_vars

\* C15 (as claimed): register_class for a type that already has a class
\* fails with DuplicateTypeError and leaves the class table as it was.
C15_DuplicateRegistrationRejected ==
  [][(req.op = "idle" /\ req'.op = "register_class"
        /\ req'.ctype \in DOMAIN component_classes)
       => /\ req'.result = "DuplicateTypeError"
          /\ component_classes' = component_classes]_vars

\* C16: create_component returns None or an instance and never lets an
\* exception through; it returns None for an unregistered type, for a pin
\* mapping without 'data' and for a constructor that raises (library not
\* available); it changes neither the class table nor the instance table.
C16_CreateNeverRaises ==
  [][(req.op = "idle" /\ req'.op = "create_component")
       => /\ req'.result \notin Exceptions
          /\ (\/ req'.ctype \notin DOMAIN component_classes
              \/ "data" \notin DOMAIN req'.gpio_pins
              \/ ~req'.available) => req'.result = None
          /\ req'.result # None => req'.result = component_classes[req'.ctype]
          /\ component_classes' = component_classes
          /\ instances' = instances]_vars

\* C16 witness: create_component has returned None for a registered type
\* whose constructor raised for the missing 'data' pin.
C16_Witness ==
  /\ req.op = "create_component" /\ req.pc = "return"
  /\ req.ctype \in DOMAIN component_classes
  /\ req.available /\ "data" \notin DOMAIN req.gpio_pins
  /\ req.result = None

\* a step of the reset_all handler
ResetSteps == req'.op = "reset_all" /\ req' # req

\* C11: no step of reset_all changes the record or the hardware state of a
\* pin with a bound component, its instance, its polling flag or its polling
\* thread.
C11_ResetLeavesClaimedPins ==
  [][ResetSteps =>
       \A p \in Pins :
         ComponentBound(p) =>
           /\ pin_states'[p] = pin_states[p]
           /\ gpio'[p] = gpio[p]
           /\ p \in DOMAIN instances' /\ instances'[p] = instances[p]
           /\ cleanup_calls' = cleanup_calls
           /\ component_running' = component_running
           /\ component_threads' = component_threads
           /\ \A t \in ComponentThreadIds :
                (t \in DOMAIN threads /\ threads[t].pin = p)
                  => (t \in DOMAIN threads' /\ threads'[t] = threads[t])]_vars

\* C11 witness: reset_all has returned while a pin that is recorded and
\* driven HIGH has a component bound and a live polling thread.
C11_Witness ==
  /\ req.op = "reset_all" /\ req.pc = "return"
  /\ \E p \in Pins :
       /\ ComponentBound(p)
       /\ pin_states[p].state = 1 /\ gpio[p].level = 1
       /\ LiveThreads("component", p) # {}

\* C19 (as claimed): remove_component on a pin without a bound component
\* returns success and changes no pin record, nothing in the registry and no
\* thread.
C19_UnbindUnboundIsNoOp ==
  [][\A p \in Pins :
       (req.op = "idle" /\ req'.op = "remove_component" /\ req'.pin = p
          /\ ~ComponentBound(p))
         => /\ req'.pc = "return" /\ req'.result = "success"
            /\ pin_states' = pin_states
            /\ instances' = instances /\ cleanup_calls' = cleanup_calls
            /\ component_data' = component_data
            /\ threads' = threads /\ gpio' = gpio]_vars

\* the polling thread t takes a step
PollThreadSteps(t) == t \in DOMAIN threads /\ threads' # threads /\
                      (t \notin DOMAIN threads' \/ threads'[t] # threads[t])

\* C20: a read never ends the polling thread, whatever its outcome: the
\* thread goes back to its loop test, and the reading it leaves is the one
\* it had or a value pair or the no-reading marker with a timestamp; the
\* thread ends only at its loop test, with its run flag off.
C20_PollingSurvivesReadFailures ==
  [][\A t \in ComponentThreadIds :
       PollThreadSteps(t) =>
         /\ threads[t].pc = "read" =>
              /\ t \in DOMAIN threads' /\ threads'[t].pc = "check"
              /\ \/ component_data' = component_data
                 \/ /\ threads[t].pin \in DOMAIN component_data'
                    /\ component_data'[threads[t].pin].data \in Readings
                    /\ component_data'[threads[t].pin].last_updated = "HH:MM:SS"
         /\ t \notin DOMAIN threads' =>
              /\ threads[t].pc = "check"
              /\ ~Get(component_running, threads[t].pin, FALSE)]_vars

\* C20 witness: the no-reading marker is stored for a pin whose polling
\* thread is alive, back at its loop test with its run flag on.
C20_Witness ==
  \E p \in Pins :
    /\ p \in DOMAIN component_data
    /\ component_data[p].data = "none_marker"
    /\ Get(component_running, p, FALSE)
    /\ \E t \in LiveThreads("component", p) : threads[t].pc = "check"

\* toggle_peripheral applied n times to a mode
RECURSIVE CycleTimes(_, _, _)
CycleTimes(n, modes, mode) ==
  IF n = 0 THEN mode ELSE CycleTimes(n - 1, modes, new_mode(modes, mode))

\* C12: a toggle_peripheral on a pin whose mode is in its list moves the mode
\* to the next one of the list, the first after the last, and changes
\* nothing else; for every pin of the board and every mode of its list, as
\* many toggles as the list is long lead back to that mode.
C12_CyclicAltFunction ==
  [][\A p \in Pins :
       (req.op = "idle" /\ req'.op = "toggle_peripheral" /\ req'.pin = p
          /\ IndexOf(available_modes(p), pin_states[p].peripheral_mode) # 0)
         => LET modes == available_modes(p)
                i == IndexOf(modes, pin_states[p].peripheral_mode)
            IN /\ pin_states'[p].peripheral_mode =
                    modes[IF i = Len(modes) THEN 1 ELSE i + 1]
               /\ pin_states' = [pin_states EXCEPT ![p].peripheral_mode =
                                                     pin_states'[p].peripheral_mode]
               /\ UNCHANGED <<flashVars, clockVars, compVars, threads, gpio>>
               /\ \A q \in GPIO_PINS :
                    \A j \in 1..Len(available_modes(q)) :
                      CycleTimes(Len(available_modes(q)), available_modes(q),
                                 available_modes(q)[j]) = available_modes(q)[j]]_vars

\* C12 witness: the second request, a toggle_peripheral on pin 23, has
\* brought the pin from the first mode of its list to the last, where it
\* started.
C12_Witness ==
  /\ req.op = "toggle_peripheral" /\ req.pc = "return" /\ req.pin = 23
  /\ ops = 2
  /\ Len(available_modes(23)) = 2
  /\ pin_states[23].peripheral_mode = available_modes(23)[2]

\* a load_configuration of a readable file has been carried out in this step
LoadStep ==
  req.op = "idle" /\ req'.op = "load_configuration" /\ req'.config.file = "ok"

\* C13: an import does not abort; an entry for a pin outside GPIO_PINS
\* creates no record, hardware channel, instance or thread; a component
\* entry of an unregistered type leaves the pin's instance, run flag and
\* thread as they were; every other pin entry sets the four fields and the
\* hardware; every other component entry binds a new instance of its class
\* and starts its thread; a pin the file does not name is unchanged.
C13_GracefulImport ==
  [][LoadStep =>
       LET config == req'.config
           types == config.components
           good == {p \in DOMAIN types \cap Pins : types[p] \in DOMAIN component_classes}
       IN
       /\ req'.result = "True"
       /\ DOMAIN pin_states' = Pins /\ DOMAIN gpio' = Pins
       /\ DOMAIN instances' \subseteq Pins
       /\ \A t \in DOMAIN threads' : threads'[t].pin \in Pins \cup {0}
       /\ \A p \in Pins \ good :
            /\ pin_states'[p].component = pin_states[p].component
            /\ (p \in DOMAIN instances') = (p \in DOMAIN instances)
            /\ p \in DOMAIN instances => instances'[p] = instances[p]
            /\ Get(component_running', p, "none") = Get(component_running, p, "none")
            /\ Get(component_threads', p, NoThread) = Get(component_threads, p, NoThread)
       /\ \A p \in DOMAIN config.pins \cap Pins :
            /\ pin_states'[p].state = config.pins[p].state
            /\ pin_states'[p].peripheral_mode = config.pins[p].peripheral_mode
            /\ pin_states'[p].flash_speed = config.pins[p].flash_speed
            /\ p \notin good => pin_states'[p].mode = config.pins[p].mode
            /\ gpio'[p].mode = config.pins[p].mode
            /\ config.pins[p].mode = "OUT" => gpio'[p].level = config.pins[p].state
       /\ \A p \in good :
            /\ p \in DOMAIN instances'
            /\ instances'[p].cls = component_classes[types[p]]
            /\ instances'[p] \notin Range(instances)
            /\ pin_states'[p].component /\ pin_states'[p].mode = Upper(types[p])
            /\ component_running'[p]
            /\ component_threads'[p] \in DOMAIN threads' \ DOMAIN threads
       /\ \A p \in Pins \ (DOMAIN config.pins \cup good) :
            pin_states'[p] = pin_states[p] /\ gpio'[p] = gpio[p]]_vars

\* C13 witness: an import has returned whose file had a pin entry for 999
\* and one for a modelled pin, and a component entry of an unregistered type
\* and one of a registered type.
C13_Witness ==
  /\ req.op = "load_configuration" /\ req.pc = "return" /\ req.result = "True"
  /\ 999 \in DOMAIN req.config.pins
  /\ DOMAIN req.config.pins \cap Pins # {}
  /\ \E p, q \in DOMAIN req.config.components \cap Pins :
       /\ req.config.components[p] \notin DOMAIN component_classes
       /\ req.config.components[q] \in DOMAIN component_classes
       /\ q \in DOMAIN instances /\ p \notin DOMAIN instances

\* C14 (as claimed): when an import returns, it has recorded one warning for
\* each entry it passed over.
C14_ImportReportsSkipped ==
  (req.op = "load_configuration" /\ req.pc = "return" /\ req.config.file = "ok")
    => LoadLogged(req.config) = LoadSkipped(req.config)

\* the instance bound to p is replaced by another in this step
Rebinds(p) ==
  p \in DOMAIN instances /\ p \in DOMAIN instances' /\ instances'[p] # instances[p]

\* C17 (as claimed): in the step that stores a new instance on a pin that has
\* one, the old polling thread has ended, cleanup() has been called on the
\* old instance exactly once, and only then the new thread starts.
C17_BindReplacesCleanly ==
  [][\A p \in Pins :
       Rebinds(p) =>
         /\ LiveThreads("component", p) = {}
         /\ Get(cleanup_calls, instances[p], 0) = 0
         /\ Get(cleanup_calls', instances[p], 0) = 1
         /\ component_threads'[p] \in DOMAIN threads' \ DOMAIN threads]_vars

\* C18 (as claimed): in the step in which remove_component finishes on a pin
\* with a bound component, no polling thread of the pin is left, cleanup()
\* has been called on the instance exactly once, the pin has no instance, no
\* component flag and no stored reading; and while a pin has no instance no
\* reading is stored for it.
C18_UnbindTearsDown ==
  [][\A p \in Pins :
       /\ (req.pc # "return" /\ req'.pc = "return" /\ req'.op = "remove_component"
             /\ req'.pin = p /\ p \in DOMAIN instances)
            => /\ \A t \in DOMAIN threads' :
                    ~(threads'[t].kind = "component" /\ threads'[t].pin = p)
               /\ Get(cleanup_calls', instances[p], 0) = 1
               /\ p \notin DOMAIN instances'
               /\ ~pin_states'[p].component
               /\ p \notin DOMAIN component_data'
       /\ (p \notin DOMAIN instances /\ p \notin DOMAIN component_data)
            => p \notin DOMAIN component_data']_vars

\* the clock-display threads that are alive
ClockThreadsAlive == {t \in DOMAIN threads : threads[t].kind = "clock"}

\* C25 (as claimed): at most one clock-display thread is alive at any time; except while
\* toggle_clock is between clearing the flag and its response, clock_running
\* is true exactly when one clock thread is alive, and that thread is the
\* one clock_thread names; when the stop branch has its response no clock
\* thread is alive.
C25_SingleClockDisplay ==
  /\ Cardinality(ClockThreadsAlive) <= 1
  /\ (req.op # "toggle_clock" \/ req.pc = "return")
       => /\ clock_running <=> Cardinality(ClockThreadsAlive) = 1
          /\ clock_running => ClockThreadsAlive = {clock_thread}
  /\ (req.op = "toggle_clock" /\ req.pc = "return" /\ req.mode = "stop")
       => ClockThreadsAlive = {} /\ ~clock_running

\* thread t is alive before this step and not after it
Ends(t) == t \in DOMAIN threads /\ t \notin DOMAIN threads'

\* the flag the loop of thread t tests
LoopFlag(t) ==
  CASE threads[t].kind = "flash" -> Get(flashing_pins, threads[t].pin, FALSE)
    [] threads[t].kind = "clock" -> clock_running
    [] threads[t].kind = "component" -> Get(component_running, threads[t].pin, FALSE)

\* C27 (as claimed): a flash, clock or polling thread ends only when its
\* loop flag is off, whatever its hardware calls do; so between requests a
\* pin recorded as flashing has a live flash thread, and outside
\* toggle_clock a set clock_running has a live clock thread.
C27_HardwareFailuresAbsorbed ==
  /\ [][\A t \in DOMAIN threads : Ends(t) => ~LoopFlag(t)]_vars
  /\ [](Idle => \A p \in Pins :
                  pin_states[p].flashing => LiveThreads("flash", p) # {})
  /\ [](req.op # "toggle_clock" => (clock_running => ClockThreadsAlive # {}))

\* C29 (as claimed): between requests a pin with a bound producer has
\* exactly one live polling thread and every other pin has none.
C29_OnePollingThreadPerProducer ==
  Idle => \A p \in Pins :
            Cardinality(LiveThreads("component", p)) =
              IF p \in DOMAIN instances THEN 1 ELSE 0

\* set_pin or set_pin_mode on pin p has its response
WriteReturned(p) ==
  req.op \in {"set_pin", "set_pin_mode"} /\ req.pc = "return" /\ req.pin = p

\* C30 (as claimed): when set_pin or set_pin_mode on p has its response, no
\* flash thread of p is alive and no running clock display has p among its
\* pins; and from then until the next request no thread changes the
\* recorded level or mode of p.
C30_WriteNotOverwritten ==
  /\ [](\A p \in Pins :
          WriteReturned(p) => ~OscillatorRunning(p) /\ ~ClockOwns(p))
  /\ [][\A p \in Pins :
          (WriteReturned(p) /\ req' = req)
            => /\ pin_states'[p].state = pin_states[p].state
               /\ pin_states'[p].mode = pin_states[p].mode]_vars

\* the pins a pass maps its pattern to
PatternPins(phase, seconds) ==
  {BoardPassPins(phase, seconds)[i] : i \in 1..Len(BoardPassPins(phase, seconds))}

\* the clock thread t ends its tick in this step
TickEnds(t) ==
  /\ t \in DOMAIN threads /\ t \in DOMAIN threads'
  /\ threads[t].kind = "clock"
  /\ threads[t].pc # "loop" /\ threads'[t].pc = "loop"

\* the claimed sets and starting levels the board-wide tick is computed for
ClaimedSets == {{}, {11}, {23, 12}, {35, 40, 3}}
BoardLevels == {[p \in GPIO_PINS |-> 0], [p \in GPIO_PINS |-> 1]}

\* C26: when a tick for second s that no other writer interrupted ends,
\* an unclaimed layout pin is recorded 1 exactly if the tens pattern of
\* s div 10 or the ones pattern of s mod 10 maps to it; no step of the clock
\* thread changes the level of a claimed pin or of a pin outside the layout.
\* The tick computed over the whole board gives the same for every second
\* 0..59: pattern pins 1, other unclaimed layout pins 0, all other pins as
\* they were.
C26_ClockTickResult ==
  /\ \A sec \in 0..59, claimed \in ClaimedSets, levels \in BoardLevels :
       LET after == BoardTick(levels, sec, claimed)
           pattern == PatternPins("tens", sec) \cup PatternPins("ones", sec)
       IN \A p \in GPIO_PINS :
            after[p] = IF p \in claimed \/ ~InClockLayout(p)
                       THEN levels[p]
                       ELSE IF p \in pattern THEN 1 ELSE 0
  /\ [][\A t \in ClockThreadIds :
          /\ TickEnds(t) =>
               LET s == threads[t].seconds
                   lit == PatternPins("tens", s) \cup PatternPins("ones", s)
               IN \A p \in Pins :
                    (InClockLayout(p) /\ ~pin_states'[p].component)
                      => (pin_states'[p].state = 1 <=> p \in lit)
          /\ ClockThreadSteps(t) =>
               \A p \in Pins :
                 (pin_states[p].component \/ ~InClockLayout(p))
                   => pin_states'[p].state = pin_states[p].state]_vars

\* C26 witness: the clock thread sleeps after a tick for second 1: pins 11
\* and 23 are unclaimed outputs, pin 11 is recorded 1 and pin 23 recorded 0,
\* and two requests have been answered.
C26_Witness ==
  /\ clock_running
  /\ \E t \in DOMAIN threads : threads[t].kind = "clock" /\ threads[t].pc = "loop"
  /\ ops = 2 /\ Idle
  /\ ~pin_states[11].component /\ ~pin_states[23].component
  /\ gpio[23].mode = "OUT" /\ gpio[11].mode = "OUT" /\ gpio[11].level = 1
  /\ pin_states[11].state = 1 /\ pin_states[23].state = 0

\* a thread has written the hardware of p and not yet the record
ActivityMidStep(p) ==
  \E t \in DOMAIN threads :
    \/ /\ threads[t].kind = "flash" /\ threads[t].pin = p
       /\ threads[t].pc \in {"rec1", "rec0"}
    \/ /\ threads[t].kind = "clock" /\ threads[t].pc = "rec"
       /\ ClockPin(threads[t]) = p

\* the step ends set_pin_mode(p, 'IN'), which reads GPIO.input(p)
ReadsInput(p) ==
  /\ req.pc # "return" /\ req'.pc = "return"
  /\ req'.op = "set_pin_mode" /\ req'.mode = "IN" /\ req'.pin = p

\* C24 (as claimed): between requests, and with no thread between its
\* hardware write and its record write on p, a pin recorded and set up as
\* OUT has the recorded level the hardware was last written with; and the
\* recorded level of a pin recorded as IN is set only by a step that reads
\* the hardware.
C24_LevelCoherence ==
  /\ [](\A p \in Pins :
          (Idle /\ ~ActivityMidStep(p)
             /\ pin_states[p].mode = "OUT" /\ gpio[p].mode = "OUT")
            => pin_states[p].state = gpio[p].level)
  /\ [][\A p \in Pins :
          (pin_states'[p].mode = "IN"
             /\ (pin_states[p].mode # "IN"
                   \/ pin_states'[p].state # pin_states[p].state))
            => ReadsInput(p)]_vars

\* get_component_data on pin p is answered in this step
ReadingReturned(p) ==
  req.op = "idle" /\ req'.op = "get_component_data" /\ req'.pin = p

\* C21 (as claimed): get_component_data on a pin with a bound component
\* answers success, never an error; the data is empty as long as the polling
\* thread of the bound instance is in its stabilisation delay, and otherwise
\* empty or the last stored reading, a value pair or the marker with both
\* values None.
C21_ReadingLifecycle ==
  [][\A p \in Pins :
       (ReadingReturned(p) /\ p \in DOMAIN instances)
         => /\ req'.result = "success"
            /\ req'.data \in {"{}"} \cup Readings
            /\ p \in DOMAIN component_data => req'.data = component_data[p].data
            /\ (p \in DOMAIN component_threads
                  /\ component_threads[p] \in DOMAIN threads
                  /\ threads[component_threads[p]].pc = "stabilize")
                 => req'.data = "{}"]_vars

\* C22: a handler that takes a pin, called with a pin outside GPIO_PINS,
\* answers 'Invalid pin' in one step that changes no pin record, no flag or
\* table of the flash, clock and component bookkeeping, no thread and no
\* hardware channel.
C22_InvalidPinRejected ==
  [][(req.op = "idle" /\ req'.op \in PerPinOps /\ req'.pin \notin GPIO_PINS)
       => /\ req'.pc = "return" /\ req'.result = "Invalid pin"
          /\ UNCHANGED <<pin_states, flashVars, clockVars, compVars, threads, gpio>>]_vars

\* C22 witness: assign_component on pin 999 has been answered 'Invalid pin'
\* while a flash thread and a polling thread are alive.
C22_Witness ==
  /\ req.op = "assign_component" /\ req.pin = 999 /\ req.pc = "return"
  /\ req.result = "Invalid pin"
  /\ \E t \in DOMAIN threads : threads[t].kind = "flash"
  /\ \E t \in DOMAIN threads : threads[t].kind = "component"

\* C23: before the first request every pin has the record OUT, level 0, not
\* flashing, alt-function GPIO, no component; and in every state the pins
\* that have a record are the pins of the board (here: of the fragment), all
\* of them in GPIO_PINS.
C23_PinRecordsProcessScoped ==
  /\ ops = 0 =>
       \A p \in Pins :
         /\ pin_states[p].mode = "OUT" /\ pin_states[p].state = 0
         /\ ~pin_states[p].flashing /\ pin_states[p].peripheral_mode = "GPIO"
         /\ ~pin_states[p].component
  /\ DOMAIN pin_states = Pins
  /\ DOMAIN pin_states \subseteq GPIO_PINS

\* C23 witness: an import has returned whose file had a pin entry and a
\* component entry for pin 999, and pin 999 has no record.
C23_Witness ==
  /\ req.op = "load_configuration" /\ req.pc = "return" /\ req.result = "True"
  /\ 999 \in DOMAIN req.config.pins
  /\ 999 \in DOMAIN req.config.components
  /\ 999 \notin DOMAIN pin_states

\* C28 (as claimed): when cleanup() returns no clock thread and no polling
\* thread is alive, the registry holds no instance, and cleanup() has been
\* called exactly once on every instance that was bound when it began.
C28_ShutdownDestroysComponents ==
  [][(req.op = "cleanup" /\ req.pc # "return" /\ req'.pc = "return")
       => /\ \A t \in DOMAIN threads' :
               threads'[t].kind \notin {"clock", "component"}
          /\ instances' = <<>>
          /\ \A p \in DOMAIN instances :
               Get(cleanup_calls', instances[p], 0) = 1]_vars

\* C31 (as claimed): a read() with retries = r makes at most r sensor calls,
\* stops at the first call that gives both values, sleeps only between two
\* calls, returns the values iff a call it made gave both, otherwise the
\* marker with both fields None, and never raises.
ReadReturned == req.op = "read" /\ req.pc = "return"

C31_BoundedRetries ==
  ReadReturned =>
    /\ req.attempts \in 0..req.retries
    /\ req.data \in {"values", "none_marker"}
    /\ \A k \in 1..req.attempts :
         k < req.attempts => req.sensor[k] \notin {"both", "raises"}
    /\ req.data = "values"
         <=> (req.attempts >= 1 /\ req.sensor[req.attempts] = "both")
    /\ req.attempts < req.retries
         => (req.attempts >= 1 /\ req.sensor[req.attempts] \in {"both", "raises"})
    /\ req.sleeps = IF req.attempts = 0 THEN 0 ELSE req.attempts - 1

\* a read with retries = 3 that succeeded at its second call after one sleep
C31_Witness ==
  /\ ReadReturned
  /\ req.retries = 3 /\ req.attempts = 2 /\ req.data = "values" /\ req.sleeps = 1

\* the flag that the loops of the threads of a kind and pin test
RunFlag(kind, pin) ==
  CASE kind = "flash" -> Get(flashing_pins, pin, FALSE)
    [] kind = "clock" -> clock_running
    [] kind = "component" -> Get(component_running, pin, FALSE)

Activities ==
  {<<"clock", 0>>} \cup {<<kind, p>> : kind \in {"flash", "component"}, p \in Pins}

\* C32 (as claimed): under fair scheduling the threads whose loop flag is
\* off end unless the flag is set again, and every request that has been
\* accepted comes to its response: no join waits for ever.
C32_CancellationCompletes ==
  /\ \A a \in Activities :
       (LiveThreads(a[1], a[2]) # {} /\ ~RunFlag(a[1], a[2]))
         ~> (LiveThreads(a[1], a[2]) = {} \/ RunFlag(a[1], a[2]))
  /\ ~Idle ~> req.pc = "return"

\* a handler waits in a join for a flash thread whose flag it has cleared
C32_Witness ==
  /\ req.pc = "join_flash"
  /\ \E t \in DOMAIN threads : threads[t].kind = "flash" /\ ~LoopFlag(t)

\* C33 (as claimed): when a flash thread of a pin ends, the level last
\* written to the pin and the recorded level of the pin are both 0.
C33_OscillatorLeavesLow ==
  [][\A t \in FlashThreadIds :
       Ends(t) => /\ gpio'[t[2]].level = 0
                  /\ pin_states'[t[2]].state = 0]_vars

\* C34 (as claimed): a pin recorded as flashing is recorded as an output.
C34_OscillatingImpliesOutput ==
  \A p \in Pins : pin_states[p].flashing => pin_states[p].mode = "OUT"

\* the bind being handled cannot create its component
BindFails(r) ==
  /\ r.op = "assign_component"
  /\ create_component(component_classes, r.ctype, GpioPins(r.ctype, r.pin),
                      DHT_AVAILABLE) = None

\* C35 (as claimed): no step of a bind that fails changes the pin's record,
\* its instance, its polling thread and flag, its stored reading or its
\* flash thread and flag.
C35_FailedBindChangesNothing ==
  [][(req' # req /\ BindFails(req'))
       => /\ pin_states'[req'.pin] = pin_states[req'.pin]
          /\ instances' = instances
          /\ component_running' = component_running
          /\ component_threads' = component_threads
          /\ component_data' = component_data
          /\ flashing_pins' = flashing_pins
          /\ DOMAIN threads' = DOMAIN threads]_vars

\* cleanup() has returned: GPIO.cleanup() has released the hardware
Released == req.op = "cleanup" /\ req.pc = "return"

\* C36 (as claimed): once cleanup() has returned no thread is alive, and
\* nothing writes the hardware or a pin record any more.
C36_NoWritesAfterShutdown ==
  /\ [](Released => threads = <<>>)
  /\ [][Released => (gpio' = gpio /\ pin_states' = pin_states)]_vars

\* C37 (as claimed): saving the configuration and loading it back leaves
\* every pin's recorded mode, level, alternate function and flash speed as
\* they were, and the same pins bound to components of the same class.
C37_RoundTrip ==
  [][(Idle /\ req'.op = "save_and_load")
       => /\ \A p \in Pins : SavedSettings(pin_states'[p]) = SavedSettings(pin_states[p])
          /\ DOMAIN instances' = DOMAIN instances
          /\ \A p \in DOMAIN instances : instances'[p].cls = instances[p].cls]_vars

\* the members of a sequence
Members(seq) == {seq[i] : i \in 1..Len(seq)}

\* C38 (as claimed): the recorded alternate function of every pin is one of
\* the pin's available modes, and every pin's available modes include GPIO.
C38_AltFunctionInSet ==
  /\ \A p \in Pins : pin_states[p].peripheral_mode \in Members(available_modes(p))
  /\ \A p \in GPIO_PINS : "GPIO" \in Members(available_modes(p))

\* C39 (as claimed): read_pin on a pin recorded as IN stores the level it
\* read and returns it; on a pin of any other recorded mode it returns the
\* recorded level and changes nothing; no other pin's record, no thread,
\* flag, component or hardware state changes in either case.
C39_ReadLevel ==
  [][(Idle /\ req'.op = "read_pin" /\ req'.pin \in Pins)
       => /\ req'.result = "success"
          /\ IF pin_states[req'.pin].mode = "IN"
             THEN /\ req'.state \in {0, 1}
                  /\ pin_states'[req'.pin] =
                       [pin_states[req'.pin] EXCEPT !.state = req'.state]
             ELSE /\ req'.state = pin_states[req'.pin].state
                  /\ pin_states' = pin_states
          /\ \A q \in Pins \ {req'.pin} : pin_states'[q] = pin_states[q]
          /\ UNCHANGED <<flashVars, clockVars, compVars, threads, gpio>>]_vars

\* a read of an input pin that found it high, and the record says so
C39_Witness ==
  /\ req.op = "read_pin" /\ req.pc = "return" /\ req.pin \in Pins
  /\ pin_states[req.pin].mode = "IN"
  /\ req.state = 1 /\ pin_states[req.pin].state = 1

\* the keys and the values of a dict literal
DictKeys(d) == {d[i][1] : i \in 1..Len(d)}
DictValueSet(d) == {d[i][2] : i \in 1..Len(d)}

\* C40 (as claimed): BOARD_TO_BCM is defined on every pin of GPIO_PINS and
\* is injective; ONES_GPIO_TO_PIN and TENS_GPIO_TO_PIN send each GPIO number
\* to the pin BOARD_TO_BCM translates to it, only to pins of GPIO_PINS, to
\* disjoint sets of pins, and hold every GPIO number of every digit pattern;
\* so the pin a digit pass of the clock thread is at is always a pin of
\* GPIO_PINS whose GPIO number is in the digit's pattern.
C40_TablesConsistent ==
  /\ \A p \in GPIO_PINS : p \in DictKeys(BOARD_TO_BCM)
  /\ \A i, j \in 1..Len(BOARD_TO_BCM) :
       BOARD_TO_BCM[i][2] = BOARD_TO_BCM[j][2] => i = j
  /\ \A map \in {ONES_GPIO_TO_PIN, TENS_GPIO_TO_PIN} :
       \A i \in 1..Len(map) :
         /\ map[i][2] \in GPIO_PINS
         /\ map[i][2] \in DictKeys(BOARD_TO_BCM)
         /\ DictGet(BOARD_TO_BCM, map[i][2]) = map[i][1]
  /\ DictValueSet(ONES_GPIO_TO_PIN) \cap DictValueSet(TENS_GPIO_TO_PIN) = {}
  /\ \A d \in 0..9 :
       /\ \A i \in 1..Len(ONES_PATTERNS_GPIO[d]) :
            ONES_PATTERNS_GPIO[d][i] \in DictKeys(ONES_GPIO_TO_PIN)
       /\ \A i \in 1..Len(TENS_PATTERNS_GPIO[d]) :
            TENS_PATTERNS_GPIO[d][i] \in DictKeys(TENS_GPIO_TO_PIN)
  /\ \A t \in DOMAIN threads :
       (threads[t].kind = "clock" /\ threads[t].phase \in {"tens", "ones"})
         => LET pattern == IF threads[t].phase = "tens"
                           THEN TENS_PATTERNS_GPIO[threads[t].seconds \div 10]
                           ELSE ONES_PATTERNS_GPIO[threads[t].seconds % 10]
            IN /\ ClockPin(threads[t]) \in GPIO_PINS
               /\ \E i \in 1..Len(pattern) :
                    pattern[i] = DictGet(BOARD_TO_BCM, ClockPin(threads[t]))

\* the clock thread is about to light, in its tens pass, the pin that the
\* tens map gives for the GPIO number of pin 11
C40_Witness ==
  \E t \in DOMAIN threads :
    /\ threads[t].kind = "clock" /\ threads[t].pc = "hw"
    /\ threads[t].phase = "tens"
    /\ ClockPin(threads[t]) = DictGet(TENS_GPIO_TO_PIN, DictGet(BOARD_TO_BCM, 11))

====
